---------------------------- MODULE Spec2Model ----------------------------
(***************************************************************************)
(* Model of the parse-and-validate engine of GeoSIRR (src/geosirr/io.py):  *)
(* parse_text, validate_cross_section_format and                           *)
(* validate_cross_section_topology, driven by a caller that composes a     *)
(* text line by line and then calls the engine on it.                      *)
(*                                                                         *)
(* A text is a sequence of raw lines; a raw line is the sequence of its    *)
(* whitespace-separated words.  Words are strings of a finite vocabulary;  *)
(* what Python's str.isdigit, int(), float(), str.count('^') and           *)
(* str.split('#', 1) do on each word is given by the tables below.         *)
(* Coordinates are kept in half kilometres (float "0.5" is 1), areas in    *)
(* cells of 0.5 km^2.                                                      *)
(***************************************************************************)
EXTENDS Integers, Sequences, FiniteSets, TLC

VARIABLES text, hashseed, parsed, fmt, topo,   \* the engine and its first calls
          reparsed, fmt2, topo2,               \* its calls made once more
          out_content, cleaned, recleaned,     \* the code-fence stripper
          md, level, adjusted,                 \* the header normalizer
          gen                                  \* generate_section_text

fenceVars == <<out_content, cleaned, recleaned>>

headerVars == <<md, level, adjusted>>

vars == <<text, hashseed, parsed, fmt, topo, reparsed, fmt2, topo2,
          fenceVars, headerVars, gen>>

----------------------------------------------------------------------------
(* Words and the Python conversions on them                                *)

\* The token "<U+00B2>" stands for the one-character string SUPERSCRIPT TWO:
\* str.isdigit() is True for it, int() and float() raise ValueError.
NonAsciiDigit == "<U+00B2>"

AsciiDigitWords == {"0", "1", "2", "3", "4", "5", "6", "7", "01"}

\* str.isdigit(): every character is a digit (Unicode category Nd or No-Digit)
isdigit(w) == w \in AsciiDigitWords \cup {NonAsciiDigit}

\* int(w) succeeds: optional sign, ASCII decimal digits
int_ok(w) == w \in AsciiDigitWords \cup {"-1"}

\* int(w), defined where int_ok(w)
int_val(w) ==
    CASE w = "0" -> 0 [] w = "1" -> 1 [] w = "2" -> 2 [] w = "3" -> 3
      [] w = "4" -> 4 [] w = "5" -> 5 [] w = "6" -> 6 [] w = "7" -> 7
      [] w = "01" -> 1 [] w = "-1" -> -1

\* float(w) succeeds
float_ok(w) == w \in AsciiDigitWords \cup {"-1", "0.0", "0.5", "1.0", "2.0"}

\* float(w) in half kilometres, defined where float_ok(w)
float_val(w) ==
    CASE w = "0.0" -> 0 [] w = "0.5" -> 1 [] w = "1.0" -> 2 [] w = "2.0" -> 4
      [] OTHER -> 2 * int_val(w)

\* name.count('^')
count_caret(w) ==
    CASE w = "A^B" -> 1 [] w = "A^^B" -> 2 [] OTHER -> 0

\* '#' in w
has_hash(w) == w \in {"#", "#note", "A#1"}

\* w.split('#', 1)[0]
before_hash(w) ==
    CASE w = "A#1" -> "A" [] w \in {"#", "#note"} -> "" [] OTHER -> w

----------------------------------------------------------------------------
(* Sequence helpers                                                        *)

RECURSIVE SortedSeq(_)
\* sorted(S) for a finite set of integers
SortedSeq(S) ==
    IF S = {} THEN <<>>
    ELSE LET m == CHOOSE x \in S : \A y \in S : x <= y
         IN <<m>> \o SortedSeq(S \ {m})

Range(s) == {s[i] : i \in DOMAIN s}

\* The first index of s at which P holds... here: first word carrying a '#'
FirstHash(raw) ==
    IF \E i \in DOMAIN raw : has_hash(raw[i])
    THEN CHOOSE i \in DOMAIN raw :
            has_hash(raw[i]) /\ \A j \in 1..(i - 1) : ~has_hash(raw[j])
    ELSE 0

\* raw.split('#', 1)[0].strip().split(): the words before the first '#'
split_comment(raw) ==
    LET h == FirstHash(raw)
    IN IF h = 0 THEN raw
       ELSE LET head == SubSeq(raw, 1, h - 1)
                part == before_hash(raw[h])
            IN IF part = "" THEN head ELSE Append(head, part)

----------------------------------------------------------------------------
(* parse_text                                                              *)

NoExc == [type |-> "", what |-> "", line |-> 0, toks |-> <<>>]

\* An exception: its type, the wording of its message ("builtin": the message
\* of int() or float() itself), the line number the message names (0: it
\* names no line) and the words the message quotes.
Exc(type, what, line, toks) ==
    [type |-> type, what |-> what, line |-> line, toks |-> toks]

NoCall == [status |-> "none"]

\* parse_tokens changed: the words after the first come in reverse order
parse_tokens_reversed(raw) ==
    LET parts == split_comment(raw)
    IN IF parts = <<>> THEN <<>>
       ELSE <<parts[1]>> \o [k \in 1..(Len(parts) - 1) |-> parts[Len(parts) + 1 - k]]

parse_tokens(raw) == split_comment(raw)

\* parse_kind changed: a polygon line needs a first token that is not all
\* digits
parse_kind_strict(parts) ==
    IF parts = <<>> THEN "blank"
    ELSE IF Len(parts) = 3 /\ isdigit(parts[1]) THEN "vertex"
    ELSE IF Len(parts) >= 2 /\ ~isdigit(parts[1]) THEN "polygon"
    ELSE "unrecognized"

\* The dispatch of parse_text on one line's tokens
parse_kind(parts) ==
    IF parts = <<>> THEN "blank"
    ELSE IF Len(parts) = 3 /\ isdigit(parts[1]) THEN "vertex"
    ELSE IF Len(parts) >= 2 THEN "polygon"
    ELSE "unrecognized"

\* The vertex branch: the exception it raises, or NoExc
parse_vertex_exc(parts) ==
    IF ~int_ok(parts[1]) THEN Exc("ValueError", "builtin", 0, <<parts[1]>>)
    ELSE IF ~float_ok(parts[2]) THEN Exc("ValueError", "builtin", 0, <<parts[2]>>)
    ELSE IF ~float_ok(parts[3]) THEN Exc("ValueError", "builtin", 0, <<parts[3]>>)
    ELSE NoExc

\* The polygon branch: the exception it raises, or NoExc
parse_polygon_exc(parts, lineno) ==
    IF count_caret(parts[1]) > 1
    THEN Exc("ValueError", "MoreThanOneCaret", lineno, <<parts[1]>>)
    ELSE IF \E k \in 2..Len(parts) : ~int_ok(parts[k])
         THEN Exc("ValueError", "CannotParseIDs", lineno, parts)
    ELSE NoExc

RECURSIVE parse_from(_, _, _, _, _)
parse_from(txt, lineno, vertices, polygons, kinds) ==
    IF lineno > Len(txt)
    THEN [status |-> "returned", vertices |-> vertices, polygons |-> polygons,
          exc |-> NoExc, kinds |-> kinds]
    ELSE
      LET parts == parse_tokens(txt[lineno])
          kind  == parse_kind(parts)
          ks    == Append(kinds, kind)
          fail(e) == [status |-> "raised", vertices |-> <<>>, polygons |-> <<>>,
                      exc |-> e, kinds |-> ks]
      IN CASE kind = "blank" ->
                parse_from(txt, lineno + 1, vertices, polygons, ks)
           [] kind = "vertex" ->
                LET e == parse_vertex_exc(parts)
                IN IF e # NoExc THEN fail(e)
                   ELSE parse_from(txt, lineno + 1,
                            Append(vertices, [id |-> int_val(parts[1]),
                                              x |-> float_val(parts[2]),
                                              z |-> float_val(parts[3])]),
                            polygons, ks)
           [] kind = "polygon" ->
                LET e == parse_polygon_exc(parts, lineno)
                IN IF e # NoExc THEN fail(e)
                   ELSE parse_from(txt, lineno + 1, vertices,
                            Append(polygons,
                                   [name |-> parts[1],
                                    ids |-> [k \in 1..(Len(parts) - 1) |->
                                                int_val(parts[k + 1])]]),
                            ks)
           [] OTHER ->
                fail(Exc("ValueError", "Unrecognized", lineno, parts))

parse_text(txt) == parse_from(txt, 1, <<>>, <<>>, <<>>)

----------------------------------------------------------------------------
(* validate_cross_section_format                                           *)

\* One error string: its wording (kind), the line number it names (0: none),
\* the integers and the words it interpolates, and the area it reports.
Err(kind, line, ids, toks) ==
    [kind |-> kind, line |-> line, ids |-> ids, toks |-> toks, area |-> 0]

format_tokens(raw) == split_comment(raw)

\* format_kind changed: a polygon line needs a first token that is not all
\* digits
format_kind_strict(parts) ==
    IF parts = <<>> THEN "blank"
    ELSE IF Len(parts) = 3 /\ isdigit(parts[1]) THEN "vertex"
    ELSE IF Len(parts) >= 2 /\ ~isdigit(parts[1]) THEN "polygon"
    ELSE "unrecognized"

\* The dispatch of validate_cross_section_format on one line's tokens
format_kind(parts) ==
    IF parts = <<>> THEN "blank"
    ELSE IF Len(parts) = 3 /\ isdigit(parts[1]) THEN "vertex"
    ELSE IF Len(parts) >= 2 THEN "polygon"
    ELSE "unrecognized"

\* Every word of the vocabulary, in a fixed order
Vocabulary ==
    <<"0", "1", "2", "3", "4", "5", "6", "7", "01", "<U+00B2>", "-1",
      "0.0", "0.5", "1.0", "2.0", "x", "A", "B", "C", "D", "E", "F", "G",
      "H", "A^B", "A^^B", "#", "#note", "A#1">>

WordRank(w) == CHOOSE i \in DOMAIN Vocabulary : Vocabulary[i] = w

RECURSIVE NamesInOrder(_, _)
\* ', '.join(polygons_names): the iteration order of a set of str depends on
\* the process's string-hash seed; seed 0 and seed 1 stand for two such
\* orders (here: the vocabulary's order and its reverse).
NamesInOrder(S, seed) ==
    IF S = {} THEN <<>>
    ELSE LET pick == IF seed = 0
                     THEN CHOOSE x \in S : \A y \in S : WordRank(x) <= WordRank(y)
                     ELSE CHOOSE x \in S : \A y \in S : WordRank(x) >= WordRank(y)
         IN <<pick>> \o NamesInOrder(S \ {pick}, seed)

FormatInit ==
    [errors |-> <<>>, vertex_ids |-> {}, used_vertex_ids |-> {},
     polygons_names |-> {}, polygons_updated |-> FALSE, kinds |-> <<>>,
     raised |-> FALSE]

\* The vertex branch of the loop body
format_vertex(st, lineno, parts, seed) ==
    IF ~int_ok(parts[1]) THEN [st EXCEPT !.raised = TRUE]
    ELSE
      LET vid == int_val(parts[1])
          e1 == IF vid \in st.vertex_ids
                THEN <<Err("DuplicateVertexID", lineno, <<vid>>, <<>>)>>
                ELSE <<>>
          e2 == IF ~float_ok(parts[2])
                THEN <<Err("InvalidX", lineno, <<>>, <<parts[2]>>)>>
                ELSE <<>>
          e3 == IF ~float_ok(parts[3])
                THEN <<Err("InvalidZ", lineno, <<>>, <<parts[3]>>)>>
                ELSE <<>>
          fire == st.polygons_names # {} /\ st.polygons_updated
          e4 == IF fire
                THEN <<Err("PolygonsBeforeVertices", 0, <<>>,
                           NamesInOrder(st.polygons_names, seed))>>
                ELSE <<>>
      IN [st EXCEPT !.errors = st.errors \o e1 \o e2 \o e3 \o e4,
                    !.vertex_ids = st.vertex_ids \cup {vid},
                    !.polygons_updated = IF fire THEN FALSE
                                         ELSE st.polygons_updated]

RECURSIVE format_ids(_, _, _, _)
\* The loop over parts[1:] of a polygon line, from word k on
format_ids(st, lineno, parts, k) ==
    IF k > Len(parts) THEN st
    ELSE IF ~isdigit(parts[k])
         THEN format_ids(
                [st EXCEPT !.errors = Append(st.errors,
                    Err("InvalidVertexID", lineno, <<>>, <<parts[1], parts[k]>>))],
                lineno, parts, k + 1)
    ELSE IF ~int_ok(parts[k]) THEN [st EXCEPT !.raised = TRUE]
    ELSE format_ids(
            [st EXCEPT !.used_vertex_ids =
                            st.used_vertex_ids \cup {int_val(parts[k])}],
            lineno, parts, k + 1)

\* The polygon branch of the loop body
format_polygon(st, lineno, parts) ==
    LET name == parts[1]
        e1 == IF isdigit(name)
              THEN <<Err("NameIsNumber", lineno, <<>>, <<name>>)>>
              ELSE <<>>
        e2 == IF name \in st.polygons_names
              THEN <<Err("NameNotUnique", lineno, <<>>, <<name>>)>>
              ELSE <<>>
        st1 == format_ids([st EXCEPT !.errors = st.errors \o e1 \o e2],
                          lineno, parts, 2)
    IN IF st1.raised THEN st1
       ELSE [st1 EXCEPT !.polygons_names = st1.polygons_names \cup {name},
                        !.polygons_updated = TRUE]

RECURSIVE format_from(_, _, _, _)
\* The loop over the lines
format_from(txt, lineno, st, seed) ==
    IF lineno > Len(txt) \/ st.raised THEN st
    ELSE
      LET parts == format_tokens(txt[lineno])
          kind  == format_kind(parts)
          st0   == [st EXCEPT !.kinds = Append(st.kinds, kind)]
          st1   == CASE kind = "blank" -> st0
                     [] kind = "vertex" -> format_vertex(st0, lineno, parts, seed)
                     [] kind = "polygon" -> format_polygon(st0, lineno, parts)
                     [] OTHER ->
                          [st0 EXCEPT !.errors = Append(st0.errors,
                              Err("Unrecognized", lineno, <<>>, parts))]
      IN format_from(txt, lineno + 1, st1, seed)

\* The checks after the loop
format_end(st) ==
    LET e1 == IF st.vertex_ids = {}
              THEN <<Err("NoVertices", 0, <<>>, <<>>)>> ELSE <<>>
        e2 == IF st.polygons_names = {}
              THEN <<Err("NoPolygons", 0, <<>>, <<>>)>> ELSE <<>>
        undef == SortedSeq(st.used_vertex_ids \ st.vertex_ids)
        e3 == [k \in 1..Len(undef) |->
                  Err("UndefinedVertex", 0, <<undef[k]>>, <<>>)]
        unused == st.vertex_ids \ st.used_vertex_ids
        e4 == IF unused # {}
              THEN <<Err("NeverUsed", 0, SortedSeq(unused), <<>>)>> ELSE <<>>
    IN st.errors \o e1 \o e2 \o e3 \o e4

validate_cross_section_format(txt, seed) ==
    LET st == format_from(txt, 1, FormatInit, seed)
    IN IF st.raised
       THEN [status |-> "raised", is_valid |-> FALSE, errors |-> <<>>,
             exc |-> Exc("ValueError", "builtin", 0, <<>>), kinds |-> st.kinds]
       ELSE LET errors == format_end(st)
            IN [status |-> "returned", is_valid |-> (errors = <<>>),
                errors |-> errors, exc |-> NoExc, kinds |-> st.kinds]

----------------------------------------------------------------------------
(* The planar geometry validate_cross_section_topology asks of shapely      *)
(*                                                                         *)
(* Points are <<x, z>> in half kilometres.  The geometry is exact for      *)
(* rings whose corners are among the corners (0,0), (4,0), (4,4), (0,4)    *)
(* and the centre (2,2) of a 2 km x 2 km square: every edge between two    *)
(* such points lies on a side or a diagonal, and every bounding rectangle  *)
(* has its sides on x, z in {0, 2, 4}, so every region is a union of the   *)
(* eight cells the lines x = 2, z = 2 and the two diagonals cut the square *)
(* into.  A region is the set of its cells; a cell has area 0.5 km^2, and  *)
(* areas and tolerances are counted in cells.                              *)

Cross(o, a, b) == (a[1] - o[1]) * (b[2] - o[2]) - (a[2] - o[2]) * (b[1] - o[1])

MinOf(a, b) == IF a <= b THEN a ELSE b

MaxOf(a, b) == IF a >= b THEN a ELSE b

\* p lies on the closed segment a-b
OnSegment(p, a, b) ==
    /\ Cross(a, b, p) = 0
    /\ MinOf(a[1], b[1]) <= p[1] /\ p[1] <= MaxOf(a[1], b[1])
    /\ MinOf(a[2], b[2]) <= p[2] /\ p[2] <= MaxOf(a[2], b[2])

Sign(n) == IF n > 0 THEN 1 ELSE IF n < 0 THEN -1 ELSE 0

\* The closed segments a-b and c-d have a point in common
SegmentsIntersect(a, b, c, d) ==
    \/ /\ Sign(Cross(c, d, a)) * Sign(Cross(c, d, b)) < 0
       /\ Sign(Cross(a, b, c)) * Sign(Cross(a, b, d)) < 0
    \/ OnSegment(a, c, d) \/ OnSegment(b, c, d)
    \/ OnSegment(c, a, b) \/ OnSegment(d, a, b)

RECURSIVE DropRepeats(_)
\* A coordinate list without its consecutive repeated points
DropRepeats(c) ==
    IF Len(c) <= 1 THEN c
    ELSE IF c[1] = c[2] THEN DropRepeats(Tail(c))
    ELSE <<c[1]>> \o DropRepeats(Tail(c))

\* The corners of the ring Polygon(coords) builds, each once: the closing
\* point (given, or added by shapely) and repeated points left out
RingPoints(coords) ==
    LET d == DropRepeats(coords)
    IN IF Len(d) >= 2 /\ d[1] = d[Len(d)] THEN SubSeq(d, 1, Len(d) - 1) ELSE d

\* Polygon(coords) raises: a linear ring needs at least 3 coordinates
polygon_raises(coords) == Len(coords) < 3

\* poly.is_valid: the ring has three or more corners, visits none twice,
\* and no two of its edges meet except consecutive ones at their corner
is_valid(coords) ==
    LET q == RingPoints(coords)
        n == Len(q)
        nxt(i) == (i % n) + 1
    IN /\ n >= 3
       /\ \A i, j \in 1..n : i # j => q[i] # q[j]
       /\ \A i \in 1..n :
             /\ ~OnSegment(q[nxt(nxt(i))], q[i], q[nxt(i)])
             /\ ~OnSegment(q[i], q[nxt(i)], q[nxt(nxt(i))])
       /\ \A i, j \in 1..n :
             (i < j /\ nxt(i) # j /\ nxt(j) # i) =>
                 ~SegmentsIntersect(q[i], q[nxt(i)], q[j], q[nxt(j)])

\* p is on the boundary of the ring q
OnBoundary(p, q) ==
    \E i \in 1..Len(q) : OnSegment(p, q[i], q[(i % Len(q)) + 1])

\* The edge a-b crosses the horizontal ray from p towards larger x
RayCrosses(p, a, b) ==
    /\ (a[2] > p[2]) # (b[2] > p[2])
    /\ IF b[2] > a[2]
       THEN (p[1] - a[1]) * (b[2] - a[2]) < (p[2] - a[2]) * (b[1] - a[1])
       ELSE (p[1] - a[1]) * (b[2] - a[2]) > (p[2] - a[2]) * (b[1] - a[1])

\* p, not on the boundary, is inside the ring q (an odd number of crossings)
InsideRing(p, q) ==
    Cardinality({i \in 1..Len(q) : RayCrosses(p, q[i], q[(i % Len(q)) + 1])}) % 2 = 1

\* poly.contains(Point(p)): p is in the interior of the polygon
contains(coords, p) ==
    LET q == RingPoints(coords)
    IN ~OnBoundary(p, q) /\ InsideRing(p, q)

\* poly.touches(Point(p)): p is on the boundary of the polygon
touches(coords, p) == OnBoundary(p, RingPoints(coords))

\* The eight cells, counter-clockwise from the one at the bottom left; cell
\* k and cell k + 1 (and cells 8 and 1) share an edge, all share the centre
Cells == 1..8

NextCell(k) == (k % 8) + 1

\* Three times the centroid of cell k (the centroid in sixths of a km)
Centroid3(k) ==
    CASE k = 1 -> <<4, 2>>  [] k = 2 -> <<8, 2>>  [] k = 3 -> <<10, 4>>
      [] k = 4 -> <<10, 8>> [] k = 5 -> <<8, 10>> [] k = 6 -> <<4, 10>>
      [] k = 7 -> <<2, 8>>  [] k = 8 -> <<2, 4>>

Times3(c) == [i \in DOMAIN c |-> <<3 * c[i][1], 3 * c[i][2]>>]

\* The region of a valid polygon: the cells inside its ring
Region(coords) ==
    LET q == Times3(RingPoints(coords))
    IN {k \in Cells : InsideRing(Centroid3(k), q)}

\* The region of the rectangle [minx, maxx] x [minz, maxz]
RectRegion(minx, maxx, minz, maxz) ==
    {k \in Cells :
        /\ 3 * minx < Centroid3(k)[1] /\ Centroid3(k)[1] < 3 * maxx
        /\ 3 * minz < Centroid3(k)[2] /\ Centroid3(k)[2] < 3 * maxz}

\* geometry.area, in cells
Area(region) == Cardinality(region)

\* isinstance(union_poly, Polygon): the union is one connected part (its
\* cells form one arc of the ring of cells), not empty and not several
IsSinglePolygon(region) ==
    /\ region # {}
    /\ Cardinality({k \in region : NextCell(k) \notin region}) <= 1

----------------------------------------------------------------------------
(* validate_cross_section_topology                                         *)

\* One error string of the topology validator
TopoErr(kind, ids, toks, area) ==
    [kind |-> kind, line |-> 0, ids |-> ids, toks |-> toks, area |-> area]

RECURSIVE Flatten(_)
\* The concatenation of a sequence of sequences
Flatten(ss) == IF ss = <<>> THEN <<>> ELSE Head(ss) \o Flatten(Tail(ss))

\* The keys of the dict {vid: (x, z) for vid, x, z in vertices}, in the
\* dict's order: each ID once, at the place of its first vertex line
dict_keys(vertices) ==
    LET firsts == SelectSeq([i \in DOMAIN vertices |-> i],
                      LAMBDA i : \A j \in 1..(i - 1) : vertices[j].id # vertices[i].id)
    IN [k \in DOMAIN firsts |-> vertices[firsts[k]].id]

\* id_to_coord[vid]: the coordinates of the last vertex line declaring vid
id_to_coord(vertices, vid) ==
    LET last == CHOOSE i \in DOMAIN vertices :
                    /\ vertices[i].id = vid
                    /\ \A j \in (i + 1)..Len(vertices) : vertices[j].id # vid
    IN <<vertices[last].x, vertices[last].z>>

has_key(vertices, vid) == \E i \in DOMAIN vertices : vertices[i].id = vid

\* duplicate_coordinate_errors changed: the check is left out
duplicate_coordinate_errors_none(vertices) == <<>>

\* duplicate_coordinate_errors changed: one error for every earlier key with
\* the same coordinates (every pair is reported)
duplicate_coordinate_errors_pairs(vertices) ==
    LET keys == dict_keys(vertices)
        coord(k) == id_to_coord(vertices, keys[k])
        err(k) ==
            LET one(j) == IF coord(j) = coord(k)
                          THEN <<TopoErr("SharedCoordinates",
                                         <<keys[j], keys[k]>>, <<>>, 0)>>
                          ELSE <<>>
            IN Flatten([idx \in 1..(k - 1) |-> one(idx)])
    IN Flatten([idx \in 1..Len(keys) |-> err(idx)])

\* The duplicate-coordinate check: one error for each key whose coordinates
\* were seen at an earlier key, naming the first key seen there and this key
duplicate_coordinate_errors(vertices) ==
    LET keys == dict_keys(vertices)
        coord(k) == id_to_coord(vertices, keys[k])
        err(k) ==
            IF \E j \in 1..(k - 1) : coord(j) = coord(k)
            THEN LET first == CHOOSE j \in 1..(k - 1) :
                                 /\ coord(j) = coord(k)
                                 /\ \A i \in 1..(j - 1) : coord(i) # coord(k)
                 IN <<TopoErr("SharedCoordinates", <<keys[first], keys[k]>>, <<>>, 0)>>
            ELSE <<>>
    IN Flatten([idx \in 1..Len(keys) |-> err(idx)])

\* coords = [id_to_coord[vid] for vid in v_ids]
polygon_coords(vertices, v_ids) ==
    [k \in DOMAIN v_ids |-> id_to_coord(vertices, v_ids[k])]

\* build_errors changed: the loop stops at the first polygon that fails
build_errors_first(vertices, polygons) ==
    LET bad(k) ==
            LET coords == polygon_coords(vertices, polygons[k].ids)
            IN polygon_raises(coords) \/ ~is_valid(coords)
    IN IF \E k \in DOMAIN polygons : bad(k)
       THEN LET k == CHOOSE i \in DOMAIN polygons :
                        bad(i) /\ \A j \in 1..(i - 1) : ~bad(j)
            IN <<TopoErr(IF polygon_raises(polygon_coords(vertices, polygons[k].ids))
                         THEN "CouldNotBeCreated" ELSE "NotValidPolygon",
                         <<>>, <<polygons[k].name>>, 0)>>
       ELSE <<>>

\* The geometry-building loop: one error for each polygon that cannot be
\* created or is not valid
build_errors(vertices, polygons) ==
    LET err(k) ==
            LET coords == polygon_coords(vertices, polygons[k].ids)
            IN IF polygon_raises(coords)
               THEN <<TopoErr("CouldNotBeCreated", <<>>, <<polygons[k].name>>, 0)>>
               ELSE IF ~is_valid(coords)
               THEN <<TopoErr("NotValidPolygon", <<>>, <<polygons[k].name>>, 0)>>
               ELSE <<>>
    IN Flatten([idx \in 1..Len(polygons) |-> err(idx)])

\* The vertex-multiplicity check
multiplicity_errors(polygons) ==
    LET err(k) ==
            IF Len(polygons[k].ids) # Cardinality(Range(polygons[k].ids))
            THEN <<TopoErr("SameVertexTwice", <<>>, <<polygons[k].name>>, 0)>>
            ELSE <<>>
    IN Flatten([idx \in 1..Len(polygons) |-> err(idx)])

\* containment_errors changed: a polygon's own vertices are tested too
containment_errors_own(vertices, polygons) ==
    LET keys == dict_keys(vertices)
        one(v, k) ==
            LET coords == polygon_coords(vertices, polygons[k].ids)
                pt == id_to_coord(vertices, keys[v])
            IN IF contains(coords, pt)
               THEN <<TopoErr("StrictlyInside", <<keys[v]>>, <<polygons[k].name>>, 0)>>
               ELSE IF touches(coords, pt)
               THEN <<TopoErr("OnEdge", <<keys[v]>>, <<polygons[k].name>>, 0)>>
               ELSE <<>>
        row(v) == LET cell(k) == one(v, k)
                  IN Flatten([idx \in 1..Len(polygons) |-> cell(idx)])
    IN Flatten([idx \in 1..Len(keys) |-> row(idx)])

\* The vertex-inside / on-edge check: every key against every polygon
containment_errors(vertices, polygons) ==
    LET keys == dict_keys(vertices)
        one(v, k) ==
            LET coords == polygon_coords(vertices, polygons[k].ids)
                pt == id_to_coord(vertices, keys[v])
            IN IF keys[v] \in Range(polygons[k].ids) THEN <<>>
               ELSE IF contains(coords, pt)
               THEN <<TopoErr("StrictlyInside", <<keys[v]>>, <<polygons[k].name>>, 0)>>
               ELSE IF touches(coords, pt)
               THEN <<TopoErr("OnEdge", <<keys[v]>>, <<polygons[k].name>>, 0)>>
               ELSE <<>>
        row(v) == LET cell(k) == one(v, k)
                  IN Flatten([idx \in 1..Len(polygons) |-> cell(idx)])
    IN Flatten([idx \in 1..Len(keys) |-> row(idx)])

PolygonRegion(vertices, polygons, k) ==
    Region(polygon_coords(vertices, polygons[k].ids))

\* The overlap tests: every pair i < j, in the order of the two loops
overlap_errors(vertices, polygons, tol) ==
    LET n == Len(polygons)
        one(i, j) ==
            LET inter == PolygonRegion(vertices, polygons, i) \cap
                         PolygonRegion(vertices, polygons, j)
            IN IF Area(inter) > tol
               THEN <<TopoErr("Overlap", <<>>,
                              <<polygons[i].name, polygons[j].name>>, Area(inter))>>
               ELSE <<>>
        row(i) == LET cell(j) == one(i, j)
                  IN Flatten([m \in 1..(n - i) |-> cell(i + m)])
    IN Flatten([idx \in 1..n |-> row(idx)])

\* min / max of a non-empty sequence of integers
MinSeq(s) == CHOOSE m \in Range(s) : \A v \in Range(s) : m <= v

MaxSeq(s) == CHOOSE m \in Range(s) : \A v \in Range(s) : m >= v

\* bounding changed: the rectangle spans the vertex lines but the last one
bounding_but_last(vertices) ==
    LET n  == IF Len(vertices) > 1 THEN Len(vertices) - 1 ELSE Len(vertices)
        xs == [i \in 1..n |-> vertices[i].x]
        zs == [i \in 1..n |-> vertices[i].z]
    IN RectRegion(MinSeq(xs), MaxSeq(xs), MinSeq(zs), MaxSeq(zs))

\* The rectangle spanning all vertices (every vertex line counts)
bounding(vertices) ==
    LET xs == [i \in DOMAIN vertices |-> vertices[i].x]
        zs == [i \in DOMAIN vertices |-> vertices[i].z]
    IN RectRegion(MinSeq(xs), MaxSeq(xs), MinSeq(zs), MaxSeq(zs))

\* unary_union of the polygons
union_poly(vertices, polygons) ==
    UNION {PolygonRegion(vertices, polygons, k) : k \in DOMAIN polygons}

\* The gap / leakage check against the bounding rectangle
coverage_errors(vertices, polygons, tol) ==
    LET gaps  == bounding(vertices) \ union_poly(vertices, polygons)
        leaks == union_poly(vertices, polygons) \ bounding(vertices)
        e1 == IF gaps # {} /\ Area(gaps) > tol
              THEN <<TopoErr("Gap", <<>>, <<>>, Area(gaps))>> ELSE <<>>
        e2 == IF leaks # {} /\ Area(leaks) > tol
              THEN <<TopoErr("Leak", <<>>, <<>>, Area(leaks))>> ELSE <<>>
    IN e1 \o e2

\* tiling_errors changed: the difference area is compared with 0, not with
\* the tolerance
tiling_errors_exact(vertices, polygons, tol) ==
    LET u == union_poly(vertices, polygons)
        b == bounding(vertices)
    IN IF ~IsSinglePolygon(u)
       THEN <<TopoErr("NotContiguous", <<>>, <<>>, 0)>>
       ELSE IF Area((u \ b) \cup (b \ u)) > 0
       THEN <<TopoErr("NotPerfectRectangle", <<>>, <<>>, 0)>>
       ELSE <<>>

\* tiling_errors changed: the difference area is compared with the
\* tolerance for a union of several parts too
tiling_errors_both(vertices, polygons, tol) ==
    LET u == union_poly(vertices, polygons)
        b == bounding(vertices)
    IN (IF ~IsSinglePolygon(u)
        THEN <<TopoErr("NotContiguous", <<>>, <<>>, 0)>> ELSE <<>>)
       \o (IF Area((u \ b) \cup (b \ u)) > tol
           THEN <<TopoErr("NotPerfectRectangle", <<>>, <<>>, 0)>> ELSE <<>>)

\* The check that the combined shape is the bounding rectangle
tiling_errors(vertices, polygons, tol) ==
    LET u == union_poly(vertices, polygons)
        b == bounding(vertices)
    IN IF ~IsSinglePolygon(u)
       THEN <<TopoErr("NotContiguous", <<>>, <<>>, 0)>>
       ELSE IF Area((u \ b) \cup (b \ u)) > tol
       THEN <<TopoErr("NotPerfectRectangle", <<>>, <<>>, 0)>>
       ELSE <<>>

\* What the function hands back: a result, with the checks it attempted
TopoReturn(errors, ran) ==
    [status |-> "returned", is_valid |-> (errors = <<>>), errors |-> errors,
     exc |-> NoExc, ran |-> ran]

\* An exception leaving the function
TopoRaise(type, ran) ==
    [status |-> "raised", is_valid |-> FALSE, errors |-> <<>>,
     exc |-> Exc(type, "builtin", 0, <<>>), ran |-> ran]

AllChecks ==
    <<"duplicates", "build", "multiplicity", "containment", "overlap",
      "coverage", "tiling">>

\* new_errors changed: the list is the one the call before left behind
new_errors_kept ==
    IF \E t \in DOMAIN topo : topo[t] # [status |-> "none"]
    THEN topo[CHOOSE t \in DOMAIN topo : topo[t] # [status |-> "none"]].errors
    ELSE <<>>

\* errors: List[str] = [] -- every call starts on a list of its own
new_errors == <<>>

validate_cross_section_topology(txt, tol) ==
    LET p == parse_text(txt)
    IN IF p.status = "raised"
       THEN TopoReturn(<<[kind |-> "UnexpectedParseFailure", line |-> p.exc.line,
                          ids |-> <<>>, toks |-> p.exc.toks, area |-> 0]>>, <<>>)
       ELSE
         LET vertices == p.vertices
             polygons == p.polygons
             e1 == new_errors \o duplicate_coordinate_errors(vertices)
         IN IF \E k \in DOMAIN polygons :
                   \E v \in Range(polygons[k].ids) : ~has_key(vertices, v)
            THEN TopoRaise("KeyError", <<"duplicates", "build">>)
            ELSE
              LET e2 == build_errors(vertices, polygons)
              IN IF e1 \o e2 # <<>>
                 THEN TopoReturn(e1 \o e2, <<"duplicates", "build">>)
                 ELSE
                   LET e3 == multiplicity_errors(polygons)
                       e4 == containment_errors(vertices, polygons)
                       e5 == overlap_errors(vertices, polygons, tol)
                   IN IF vertices = <<>>
                      THEN TopoRaise("ValueError", SubSeq(AllChecks, 1, 6))
                      ELSE TopoReturn(
                              e3 \o e4 \o e5
                                 \o coverage_errors(vertices, polygons, tol)
                                 \o tiling_errors(vertices, polygons, tol),
                              AllChecks)

\* The text of an output or of a document put together from pieces: its
\* pieces one after the other
TextOf(pieces) == Flatten(pieces)

----------------------------------------------------------------------------
(* clean_code_block_markers, on a text given character by character         *)

\* The token "<backtick>" stands for the one-character string GRAVE ACCENT
Backtick == "<backtick>"

\* \s of the regular expressions, and what str.strip() removes
IsSpace(c) == c \in {" ", "\n"}

\* [a-zA-Z0-9]
IsAlnum(c) == c \in {"a", "A", "B", "C", "0", "1", "2", "3", "4"}

\* The three characters from place i on are a fence marker
HasFenceAt(s, i) ==
    /\ i >= 1 /\ i + 2 <= Len(s)
    /\ s[i] = Backtick /\ s[i + 1] = Backtick /\ s[i + 2] = Backtick

\* Where a greedy \s* started at place i stops: the first place from i on
\* whose character is no whitespace (Len + 1 if there is none)
SpaceRunEnd(s, i) ==
    IF \E k \in i..Len(s) : ~IsSpace(s[k])
    THEN CHOOSE k \in i..Len(s) : ~IsSpace(s[k]) /\ \A j \in i..(k - 1) : IsSpace(s[j])
    ELSE Len(s) + 1

\* Where a greedy [a-zA-Z0-9]* started at place i stops
AlnumRunEnd(s, i) ==
    IF \E k \in i..Len(s) : ~IsAlnum(s[k])
    THEN CHOOSE k \in i..Len(s) : ~IsAlnum(s[k]) /\ \A j \in i..(k - 1) : IsAlnum(s[j])
    ELSE Len(s) + 1

\* Where a greedy [^\n]* started at place i stops: the first newline from i
\* on (Len + 1 if there is none)
LineEnd(s, i) ==
    IF \E k \in i..Len(s) : s[k] = "\n"
    THEN CHOOSE k \in i..Len(s) : s[k] = "\n" /\ \A j \in i..(k - 1) : s[j] # "\n"
    ELSE Len(s) + 1

\* re.match(r"^\s*```(?:[^\n]*)\n([\s\S]*?)\n```\s*$", text): whether it
\* matches, and its group 1
full_block(s) ==
    LET open  == SpaceRunEnd(s, 1)
        nl    == LineEnd(s, open + 3)
        close == {e \in (nl + 1)..Len(s) :
                     /\ s[e] = "\n"
                     /\ HasFenceAt(s, e + 1)
                     /\ SpaceRunEnd(s, e + 4) = Len(s) + 1}
    IN IF HasFenceAt(s, open) /\ nl <= Len(s) /\ close # {}
       THEN [matched |-> TRUE,
             group |-> SubSeq(s, nl + 1,
                              (CHOOSE e \in close : \A f \in close : e <= f) - 1)]
       ELSE [matched |-> FALSE, group |-> <<>>]

RECURSIVE sub_opening(_, _)
\* re.sub(r"```[a-zA-Z0-9]*\n?", "", text), from place i on
sub_opening(s, i) ==
    IF i > Len(s) THEN <<>>
    ELSE IF HasFenceAt(s, i)
         THEN LET j == AlnumRunEnd(s, i + 3)
              IN sub_opening(s, IF j <= Len(s) /\ s[j] = "\n" THEN j + 1 ELSE j)
         ELSE <<s[i]>> \o sub_opening(s, i + 1)

RECURSIVE replace_fence(_, _)
\* text.replace("```", ""), from place i on
replace_fence(s, i) ==
    IF i > Len(s) THEN <<>>
    ELSE IF HasFenceAt(s, i) THEN replace_fence(s, i + 3)
         ELSE <<s[i]>> \o replace_fence(s, i + 1)

\* text.strip()
strip(s) ==
    LET first == SpaceRunEnd(s, 1)
    IN IF first > Len(s) THEN <<>>
       ELSE SubSeq(s, first,
                   CHOOSE k \in first..Len(s) :
                       ~IsSpace(s[k]) /\ \A j \in (k + 1)..Len(s) : IsSpace(s[j]))

clean_code_block_markers(s) ==
    LET block == full_block(s)
        inner == IF block.matched THEN block.group ELSE s
    IN strip(replace_fence(sub_opening(inner, 1), 1))

----------------------------------------------------------------------------
(* adjust_markdown_headers, on a text given character by character          *)

\* Where a greedy #* started at place i stops
HashRunEnd(s, i) ==
    IF \E k \in i..Len(s) : s[k] # "#"
    THEN CHOOSE k \in i..Len(s) : s[k] # "#" /\ \A j \in i..(k - 1) : s[j] = "#"
    ELSE Len(s) + 1

\* ^ under re.MULTILINE: the start of the text or the place after a newline
AtLineStart(s, i) == i = 1 \/ (i >= 2 /\ i - 1 <= Len(s) /\ s[i - 1] = "\n")

\* The match of ^(?P<prefix>\s*)(?P<hashes>#{1,6})(?P<suffix>\s+.*)$ that
\* starts at place i: where its hashes start and stop and where it ends
\* (\s* and \s+ run over newlines, .* stops at the end of a line)
header_match(s, i) ==
    LET hashes == SpaceRunEnd(s, i)
        suffix == HashRunEnd(s, hashes)
        rest   == SpaceRunEnd(s, suffix)
    IN [found  |-> /\ AtLineStart(s, i)
                   /\ suffix - hashes >= 1 /\ suffix - hashes <= 6
                   /\ suffix <= Len(s) /\ IsSpace(s[suffix]),
        hashes |-> hashes, suffix |-> suffix, end |-> LineEnd(s, rest)]

RECURSIVE header_levels(_, _)
\* levels = [len(m.group('hashes')) for m in pattern.finditer(md_text)],
\* from place i on
header_levels(s, i) ==
    IF i > Len(s) THEN <<>>
    ELSE LET m == header_match(s, i)
         IN IF m.found
            THEN <<m.suffix - m.hashes>> \o header_levels(s, m.end)
            ELSE header_levels(s, i + 1)

\* '#' * n
Hashes(n) == [k \in 1..n |-> "#"]

\* _shift: the new level of a header of level orig
shift(orig, offset) ==
    LET new_level == orig + offset
    IN IF new_level > 6 THEN 6 ELSE IF new_level < 1 THEN 1 ELSE new_level

RECURSIVE sub_headers(_, _, _)
\* pattern.sub(_shift, md_text), from place i on
sub_headers(s, i, offset) ==
    IF i > Len(s) THEN <<>>
    ELSE LET m == header_match(s, i)
         IN IF m.found
            THEN SubSeq(s, i, m.hashes - 1)
                    \o Hashes(shift(m.suffix - m.hashes, offset))
                    \o SubSeq(s, m.suffix, m.end - 1)
                    \o sub_headers(s, m.end, offset)
            ELSE <<s[i]>> \o sub_headers(s, i + 1, offset)

adjust_markdown_headers(s, lvl) ==
    IF ~(1 <= lvl /\ lvl <= 6)
    THEN [status |-> "raised", level |-> lvl, text |-> <<>>,
          exc |-> Exc("ValueError", "LevelOutOfRange", 0, <<>>)]
    ELSE LET levels == header_levels(s, 1)
         IN IF levels = <<>>
            THEN [status |-> "raised", level |-> lvl, text |-> <<>>,
                  exc |-> Exc("ValueError", "NoHeaders", 0, <<>>)]
            ELSE [status |-> "returned", level |-> lvl,
                  text |-> sub_headers(s, 1, lvl - MinSeq(levels)),
                  exc |-> NoExc]

----------------------------------------------------------------------------
(* generate_section_text: the loop of chats and attempts around the engine  *)

\* Where a word started at place i stops
WordEnd(s, i) ==
    IF \E k \in i..Len(s) : IsSpace(s[k])
    THEN CHOOSE k \in i..Len(s) : IsSpace(s[k]) /\ \A j \in i..(k - 1) : ~IsSpace(s[j])
    ELSE Len(s) + 1

RECURSIVE splitlines(_)
\* text.splitlines()
splitlines(s) ==
    IF s = <<>> THEN <<>>
    ELSE LET e == LineEnd(s, 1)
         IN <<SubSeq(s, 1, e - 1)>> \o splitlines(SubSeq(s, e + 1, Len(s)))

\* A run of characters as a word of the engine: a single character is the
\* word it spells, a longer run is read as "x", a word that is no number
\* (the outputs below give the engine single-character words only)
Word(run) == IF Len(run) = 1 THEN run[1] ELSE "x"

RECURSIVE split(_)
\* line.split(): the words of a line
split(line) ==
    LET b == SpaceRunEnd(line, 1)
    IN IF b > Len(line) THEN <<>>
       ELSE LET e == WordEnd(line, b)
            IN <<Word(SubSeq(line, b, e - 1))>> \o split(SubSeq(line, e, Len(line)))

\* A text of characters as the engine reads it: the words of each line
LinesOf(s) == LET ls == splitlines(s) IN [k \in DOMAIN ls |-> split(ls[k])]

\* tol = 1e-8, the default of validate_cross_section_topology: below every
\* area of the model, which are whole cells
DefaultTol == 0

\* What the model can answer
LLMOutputs ==
    \* 1: a fenced section, one polygon over the whole square
    << << Backtick, Backtick, Backtick, "a", "\n",
          "1", " ", "0", " ", "0", "\n",
          "2", " ", "2", " ", "0", "\n",
          "3", " ", "2", " ", "2", "\n",
          "4", " ", "0", " ", "2", "\n",
          "C", " ", "1", " ", "2", " ", "3", " ", "4", "\n",
          Backtick, Backtick, Backtick >>,
    \* 2: a bare section of two triangles
       << "1", " ", "0", " ", "0", "\n",
          "2", " ", "2", " ", "0", "\n",
          "3", " ", "2", " ", "2", "\n",
          "4", " ", "0", " ", "2", "\n",
          "A", " ", "1", " ", "2", " ", "3", "\n",
          "B", " ", "1", " ", "3", " ", "4" >>,
    \* 3: a fenced section whose polygon leaves half of the rectangle open
       << Backtick, Backtick, Backtick, "\n",
          "1", " ", "0", " ", "0", "\n",
          "2", " ", "2", " ", "0", "\n",
          "3", " ", "2", " ", "2", "\n",
          "A", " ", "1", " ", "2", " ", "3", "\n",
          Backtick, Backtick, Backtick >>,
    \* 4: the polygon before its vertices
       << "C", " ", "1", " ", "2", " ", "3", " ", "4", "\n",
          "1", " ", "0", " ", "0", "\n",
          "2", " ", "2", " ", "0", "\n",
          "3", " ", "2", " ", "2", "\n",
          "4", " ", "0", " ", "2" >>,
    \* 5: a polygon over vertices that are not declared
       << "A", " ", "1", " ", "2", " ", "3" >>,
    \* 6: a vertex whose ID is SUPERSCRIPT TWO
       << NonAsciiDigit, " ", "0", " ", "0" >>,
    \* 7: an empty fenced block
       << Backtick, Backtick, Backtick, "\n",
          Backtick, Backtick, Backtick >> >>

\* No attempt made yet
NoAttempt ==
    [out |-> 0, section_content |-> <<>>, format_raised |-> FALSE,
     is_valid_format |-> FALSE, topology_raised |-> FALSE,
     is_valid_topology |-> FALSE]

\* The record of one attempt: the output taken, the cleaned output, and the
\* verdicts f of the format check and t of the topology check on it; an
\* exception of the topology check is caught, one of the format check is not
attempt_record(k, section_content, f, t) ==
    [out |-> k,
     section_content |-> section_content,
     format_raised |-> f.status = "raised",
     is_valid_format |-> f.status = "returned" /\ f.is_valid,
     topology_raised |-> t.status = "raised",
     is_valid_topology |-> t.status = "returned" /\ t.is_valid]

\* Lines 744-762: the two checks of a cleaned output, in a process whose
\* string-hash seed is seed
checks_of(k, section_content, lines, seed) ==
    attempt_record(k, section_content,
                   validate_cross_section_format(lines, seed),
                   validate_cross_section_topology(lines, DefaultTol))

\* Lines 741-762 of one attempt on output k
cleaned_checks(k, section_content, seed) ==
    checks_of(k, section_content, LinesOf(section_content), seed)

\* What lines 741-762 make of every output, under either seed
OutputChecks ==
    [seed \in {0, 1} |->
        [k \in DOMAIN LLMOutputs |->
            cleaned_checks(k, clean_code_block_markers(LLMOutputs[k]), seed)]]

attempt_checks(k) == OutputChecks[hashseed][k]

Msg(role, content) == [role |-> role, content |-> content]

\* FreshInput changed: a later chat goes on from the history of the chat
\* before it
FreshInput_carried ==
    IF gen # [status |-> "none"] /\ gen.chats # <<>>
    THEN gen.chats[Len(gen.chats)]
    ELSE <<Msg("system", "llm_role"), Msg("user", "user_prompt")>>

\* input = [system: llm_role, user: user_prompt]
FreshInput == <<Msg("system", "llm_role"), Msg("user", "user_prompt")>>

\* The call as it stands, given where it is and what changed
GenState(args, status, pc, rest) ==
    [status |-> status, pc |-> pc,
     only_prompt |-> args.only_prompt, verbose |-> args.verbose,
     max_chats |-> args.max_chats,
     max_gen_iterations |-> args.max_gen_iterations,
     full_prompt |-> rest.full_prompt,
     chat_idx |-> rest.chat_idx, attempt |-> rest.attempt,
     input |-> rest.input, chats |-> rest.chats,
     success |-> rest.success,
     llm_calls |-> rest.llm_calls, chat_calls |-> rest.chat_calls,
     last |-> rest.last, result |-> rest.result]

\* Nothing returned
NoResult == [success |-> FALSE, section_content |-> <<>>, chats |-> <<>>]

\* chats = [], success = False, nothing called yet
GenStart(full_prompt) ==
    [full_prompt |-> full_prompt, chat_idx |-> 1, attempt |-> 1,
     input |-> <<>>, chats |-> <<>>, success |-> FALSE,
     llm_calls |-> 0, chat_calls |-> 0, last |-> NoAttempt,
     result |-> NoResult]

\* chats.append(input) and return success, section_content, full_prompt,
\* chats, with input the history the valid output was appended to
attempt_success(g, c, input) ==
    [g EXCEPT !.status = "returned", !.success = TRUE, !.last = c,
              !.llm_calls = @ + 1, !.chat_calls = @ + 1,
              !.input = input, !.chats = Append(@, input),
              !.result = [success |-> TRUE,
                          section_content |-> c.section_content,
                          chats |-> Append(g.chats, input)]]

\* attempt_step changed: a valid output is answered with feedback like an
\* invalid one, and the loop goes on
attempt_step_continue(g, c) ==
    IF c.format_raised
    THEN [g EXCEPT !.status = "raised", !.last = c,
                   !.llm_calls = @ + 1, !.chat_calls = @ + 1]
    ELSE [g EXCEPT !.last = c,
                   !.llm_calls = @ + 1, !.chat_calls = @ + 1,
                   !.input = @ \o <<Msg("assistant", "section_content"),
                                    Msg("user", "feedback_message")>>,
                   !.attempt = @ + 1]

\* Lines 723-806: what one attempt with the checks c makes of the call g
attempt_step(g, c) ==
    IF c.format_raised
    THEN [g EXCEPT !.status = "raised", !.last = c,
                   !.llm_calls = @ + 1, !.chat_calls = @ + 1]
    ELSE IF c.is_valid_format /\ c.is_valid_topology
    THEN attempt_success(g, c, Append(g.input, Msg("assistant", "section_content")))
    ELSE [g EXCEPT !.last = c,
                   !.llm_calls = @ + 1, !.chat_calls = @ + 1,
                   !.input = @ \o <<Msg("assistant", "section_content"),
                                    Msg("user", "feedback_message")>>,
                   !.attempt = @ + 1]

\* Lines 688-707: the return of only_prompt, or the start of the loop
begin_generation(args, full_prompt) ==
    IF args.verbose /\ args.only_prompt
    THEN GenState(args, "returned", "prompt",
                  [GenStart(full_prompt) EXCEPT
                      !.result = [success |-> TRUE, section_content |-> <<>>,
                                  chats |-> <<>>]])
    ELSE GenState(args, "running", "chat", GenStart(full_prompt))

\* Lines 630-685: the checks of the arguments and the prompt, with the two
\* texts as adjust_markdown_headers returned them
build_prompt(args, instruction, description) ==
    IF \/ args.max_gen_iterations <= 0
       \/ args.max_chats <= 0
       \/ strip(args.text) = <<>>
       \/ instruction.status = "raised"
       \/ description.status = "raised"
    THEN GenState(args, "raised", "args", GenStart(<<>>))
    ELSE begin_generation(args, [instruction |-> instruction.text,
                                 description |-> description.text])

\* Lines 630-707: the checks of the arguments, the prompt, the return of
\* only_prompt
generate_section_text_begin(args) ==
    build_prompt(args, adjust_markdown_headers(args.instruction_prompt, 2),
                       adjust_markdown_headers(args.text, 3))

----------------------------------------------------------------------------
(* The caller: composes a text, then calls the engine on it               *)

\* The most lines a composed text has
MaxLines == 3

\* The raw lines the caller composes format-level texts from
FmtLines ==
    { <<>>,
      <<"#note">>,
      <<"1", "0", "0">>,
      <<"01", "2.0", "0", "#", "A">>,
      <<"2", "x", "0.5">>,
      <<"2", "1", "x">>,
      <<"A", "1", "2">>,
      <<"A", "2", "-1">>,
      <<"A^^B", "1">>,
      <<"B", "x", "3">>,
      <<"A#1", "2", "3">>,
      <<"3", "1">>,
      <<"3", "1", "2", "2">>,
      <<NonAsciiDigit, "0", "0">> }

Tolerances == {0, 2, 8}

NoCalls ==
    /\ parsed = NoCall
    /\ fmt = NoCall
    /\ \A t \in Tolerances : topo[t] = NoCall

\* Nothing was called a second time
NoSecondCalls ==
    /\ reparsed = NoCall
    /\ fmt2 = NoCall
    /\ topo2 = [t \in Tolerances |-> NoCall]

\* The text utilities and the generation loop are not in use
UtilitiesIdle ==
    /\ out_content = <<>> /\ cleaned = NoCall /\ recleaned = NoCall
    /\ md = <<>> /\ level = 0 /\ adjusted = NoCall
    /\ gen = NoCall

Init ==
    /\ text = <<>>
    /\ hashseed \in {0, 1}
    /\ parsed = NoCall
    /\ fmt = NoCall
    /\ topo = [t \in Tolerances |-> NoCall]
    /\ NoSecondCalls
    /\ UtilitiesIdle

\* The caller appends one more line to the text it is composing
AddLine ==
    /\ NoCalls
    /\ Len(text) < MaxLines
    /\ \E raw \in FmtLines : text' = Append(text, raw)
    /\ UNCHANGED <<hashseed, parsed, fmt, topo, reparsed, fmt2, topo2>>
    /\ UNCHANGED <<fenceVars, headerVars, gen>>

\* parse_text(text), an exception caught by the caller
CallParse ==
    /\ parsed = NoCall
    /\ parsed' = parse_text(text)
    /\ UNCHANGED <<text, hashseed, fmt, topo, reparsed, fmt2, topo2>>
    /\ UNCHANGED <<fenceVars, headerVars, gen>>

\* validate_cross_section_format(text), an exception caught by the caller
CallFormat ==
    /\ fmt = NoCall
    /\ fmt' = validate_cross_section_format(text, hashseed)
    /\ UNCHANGED <<text, hashseed, parsed, topo, reparsed, fmt2, topo2>>
    /\ UNCHANGED <<fenceVars, headerVars, gen>>

\* str(n) of a vertex ID
str_int(n) ==
    CASE n = 0 -> "0" [] n = 1 -> "1" [] n = 2 -> "2" [] n = 3 -> "3"
      [] n = 4 -> "4" [] n = 5 -> "5" [] n = 6 -> "6" [] n = 7 -> "7"
      [] n = -1 -> "-1"

\* str(x) of a coordinate (x in half kilometres)
str_float(x) ==
    CASE x = 0 -> "0.0" [] x = 1 -> "0.5" [] x = 2 -> "1.0" [] x = 4 -> "2.0"

\* The parsed vertices written as 'id x z' lines, then the parsed polygons
\* written as 'name id1 ... idN' lines
Serialized(vertices, polygons) ==
    [i \in DOMAIN vertices |->
        <<str_int(vertices[i].id), str_float(vertices[i].x),
          str_float(vertices[i].z)>>]
    \o [i \in DOMAIN polygons |->
        <<polygons[i].name>>
           \o [k \in DOMAIN polygons[i].ids |-> str_int(polygons[i].ids[k])]]

\* parse_text on the text written from what parse_text returned
CallReparse ==
    /\ parsed # NoCall
    /\ parsed.status = "returned"
    /\ reparsed = NoCall
    /\ reparsed' = parse_text(Serialized(parsed.vertices, parsed.polygons))
    /\ UNCHANGED <<text, hashseed, parsed, fmt, topo, fmt2, topo2>>
    /\ UNCHANGED <<fenceVars, headerVars, gen>>

\* validate_cross_section_format(text) once more, in a run of the program
\* whose string-hash seed may be another (the seed is drawn per process)
CallFormatAgain ==
    /\ fmt # NoCall
    /\ fmt2 = NoCall
    /\ \E seed \in {0, 1} : fmt2' = validate_cross_section_format(text, seed)
    /\ UNCHANGED <<text, hashseed, parsed, fmt, topo, reparsed, topo2>>
    /\ UNCHANGED <<fenceVars, headerVars, gen>>

Next == AddLine \/ CallParse \/ CallFormat \/ CallReparse \/ CallFormatAgain

Spec == Init /\ [][Next]_vars

----------------------------------------------------------------------------
(* The caller of the topology validator: composes a cross-section from     *)
(* the lines of a catalogue, kept in the catalogue's order, then validates *)
(* it at one tolerance after another                                       *)

\* The most lines a composed cross-section has
MaxTopoLines == 6

\* Vertices on the corners and the centre of the 2 km square (two more on
\* the corner of vertex 1, and ID 1 declared again on another corner), then
\* polygons over them
TopoCatalog ==
    << <<"1", "0", "0">>,
       <<"2", "2", "0">>,
       <<"3", "2", "2">>,
       <<"4", "0", "2">>,
       <<"5", "1", "1.0">>,
       <<"6", "0.0", "0">>,
       <<"7", "0", "0.0">>,
       <<"01", "2", "2">>,
       <<"A", "1", "2", "3">>,
       <<"B", "1", "3", "4">>,
       <<"C", "1", "2", "3", "4">>,
       <<"D", "1", "2", "4", "3">>,
       <<"E", "1", "2">>,
       <<"F", "1", "2", "5">>,
       <<"G", "3", "4", "5">>,
       <<"H", "2", "3", "5">>,
       <<"A^B", "1", "2", "5", "1">> >>

\* The place in the catalogue of the last line of the text (0: none yet)
LastTopoLine ==
    IF text = <<>> THEN 0
    ELSE CHOOSE i \in DOMAIN TopoCatalog : TopoCatalog[i] = text[Len(text)]

InitTopo ==
    /\ text = <<>>
    /\ hashseed = 0
    /\ parsed = NoCall
    /\ fmt = NoCall
    /\ topo = [t \in Tolerances |-> NoCall]
    /\ NoSecondCalls
    /\ UtilitiesIdle

\* The caller appends a later line of the catalogue
AddTopoLine ==
    /\ NoCalls
    /\ Len(text) < MaxTopoLines
    /\ \E i \in DOMAIN TopoCatalog :
          /\ i > LastTopoLine
          /\ text' = Append(text, TopoCatalog[i])
    /\ UNCHANGED <<hashseed, parsed, fmt, topo, reparsed, fmt2, topo2>>
    /\ UNCHANGED <<fenceVars, headerVars, gen>>

\* validate_cross_section_topology(text, tol) at the next larger tolerance,
\* an exception caught by the caller
CallTopology ==
    /\ \E t \in Tolerances :
          /\ topo[t] = NoCall
          /\ \A u \in Tolerances : u < t => topo[u] # NoCall
          /\ topo' = [topo EXCEPT ![t] = validate_cross_section_topology(text, t)]
    /\ UNCHANGED <<text, hashseed, parsed, fmt, reparsed, fmt2, topo2>>
    /\ UNCHANGED <<fenceVars, headerVars, gen>>

NextTopo == AddTopoLine \/ CallTopology

SpecTopo == InitTopo /\ [][NextTopo]_vars

----------------------------------------------------------------------------
(* The caller that validates a generated cross-section: format, then       *)
(* topology (generate_section_text), and then both once more on the text   *)
(* it was handed back (main.py)                                            *)

\* validate_cross_section_topology(text, tol), after the format validation
CallTopologyOnce ==
    /\ fmt # NoCall
    /\ \A t \in Tolerances : topo[t] = NoCall
    /\ \E t \in Tolerances :
          topo' = [topo EXCEPT ![t] = validate_cross_section_topology(text, t)]
    /\ UNCHANGED <<text, hashseed, parsed, fmt, reparsed, fmt2, topo2>>
    /\ UNCHANGED <<fenceVars, headerVars, gen>>

\* The same call on the same text and tolerance, made once more
CallTopologyAgain ==
    /\ \E t \in Tolerances :
          /\ topo[t] # NoCall
          /\ topo2[t] = NoCall
          /\ topo2' = [topo2 EXCEPT ![t] = validate_cross_section_topology(text, t)]
    /\ UNCHANGED <<text, hashseed, parsed, fmt, topo, reparsed, fmt2>>
    /\ UNCHANGED <<fenceVars, headerVars, gen>>

NextSection == AddTopoLine \/ CallFormat \/ CallTopologyOnce \/ CallTopologyAgain

SpecSection == InitTopo /\ [][NextSection]_vars

----------------------------------------------------------------------------
(* The caller that hands one composed text to the parser, to the format    *)
(* validator and, after the format validation, to the topology validator   *)

\* The raw lines of these texts: the format-level lines, and polygon lines
\* over the vertex they declare, one of them with a single '^' in its name
GrammarLines == FmtLines \cup { <<"B", "1">>, <<"A^B", "1", "1">> }

\* The caller appends one more line to the text it is composing
AddGrammarLine ==
    /\ NoCalls
    /\ Len(text) < MaxLines
    /\ \E raw \in GrammarLines : text' = Append(text, raw)
    /\ UNCHANGED <<hashseed, parsed, fmt, topo, reparsed, fmt2, topo2>>
    /\ UNCHANGED <<fenceVars, headerVars, gen>>

NextGrammar == AddGrammarLine \/ CallParse \/ CallFormat \/ CallTopologyOnce

SpecGrammar == Init /\ [][NextGrammar]_vars

----------------------------------------------------------------------------
(* The caller of the topology validator on cross-sections of several       *)
(* polygons over the corners and the centre of the square                  *)

\* The most lines such a cross-section has
MaxTilingLines == 7

\* The corners and the centre of the 2 km square, then polygons over them:
\* half of the square, the square, and three of the four triangles around
\* the centre (F and G meet at the centre only)
TilingCatalog ==
    << <<"1", "0", "0">>,
       <<"2", "2", "0">>,
       <<"3", "2", "2">>,
       <<"4", "0", "2">>,
       <<"5", "1", "1.0">>,
       <<"A", "1", "2", "3">>,
       <<"C", "1", "2", "3", "4">>,
       <<"F", "1", "2", "5">>,
       <<"G", "3", "4", "5">>,
       <<"H", "2", "3", "5">> >>

\* The place in the catalogue of the last line of the text (0: none yet)
LastTilingLine ==
    IF text = <<>> THEN 0
    ELSE CHOOSE i \in DOMAIN TilingCatalog : TilingCatalog[i] = text[Len(text)]

\* The caller appends a later line of the catalogue
AddTilingLine ==
    /\ NoCalls
    /\ Len(text) < MaxTilingLines
    /\ \E i \in DOMAIN TilingCatalog :
          /\ i > LastTilingLine
          /\ text' = Append(text, TilingCatalog[i])
    /\ UNCHANGED <<hashseed, parsed, fmt, topo, reparsed, fmt2, topo2>>
    /\ UNCHANGED <<fenceVars, headerVars, gen>>

NextTiling == AddTilingLine \/ CallTopology

SpecTiling == InitTopo /\ [][NextTiling]_vars

----------------------------------------------------------------------------
(* The caller of the code-fence stripper: an output put together piece by  *)
(* piece, cleaned, and the cleaned text cleaned once more                  *)

\* The most pieces an output has
MaxPieces == 5

\* The pieces of an output: a fence marker, a lone backtick, an
\* alphanumeric character, another character, a newline, a blank
FencePieces ==
    { <<Backtick, Backtick, Backtick>>, <<Backtick>>, <<"a">>, <<"+">>,
      <<"\n">>, <<" ">> }

InitFence ==
    /\ text = <<>>
    /\ hashseed = 0
    /\ parsed = NoCall
    /\ fmt = NoCall
    /\ topo = [t \in Tolerances |-> NoCall]
    /\ NoSecondCalls
    /\ UtilitiesIdle

AddPiece ==
    /\ cleaned = NoCall
    /\ Len(out_content) < MaxPieces
    /\ \E piece \in FencePieces : out_content' = Append(out_content, piece)
    /\ UNCHANGED <<text, hashseed, parsed, fmt, topo, reparsed, fmt2, topo2>>
    /\ UNCHANGED <<cleaned, recleaned, headerVars, gen>>

\* section_content = io.clean_code_block_markers(out_content)
CallClean ==
    /\ cleaned = NoCall
    /\ cleaned' = [status |-> "returned",
                   text |-> clean_code_block_markers(TextOf(out_content))]
    /\ UNCHANGED <<text, hashseed, parsed, fmt, topo, reparsed, fmt2, topo2>>
    /\ UNCHANGED <<out_content, recleaned, headerVars, gen>>

\* clean_code_block_markers on what it returned
CallCleanAgain ==
    /\ cleaned # NoCall
    /\ recleaned = NoCall
    /\ recleaned' = [status |-> "returned",
                     text |-> clean_code_block_markers(cleaned.text)]
    /\ UNCHANGED <<text, hashseed, parsed, fmt, topo, reparsed, fmt2, topo2>>
    /\ UNCHANGED <<out_content, cleaned, headerVars, gen>>

NextFence == AddPiece \/ CallClean \/ CallCleanAgain

SpecFence == InitFence /\ [][NextFence]_vars

----------------------------------------------------------------------------
(* The caller of the header normalizer: a Markdown text put together piece *)
(* by piece, then normalized to a level                                    *)

\* The most pieces a Markdown text has
MaxMdPieces == 4

\* The pieces of a Markdown text: hashes alone, hashes and a blank, headers
\* of 2, 6 and 7 hashes, a newline, a letter, a blank
MdPieces ==
    { <<"#">>, <<"#", " ">>, <<"#", "#", " ", "t">>,
      <<"#", "#", "#", "#", "#", "#", " ", "t">>,
      <<"#", "#", "#", "#", "#", "#", "#", " ", "t">>,
      <<"\n">>, <<"t">>, <<" ">> }

\* The levels the caller asks for: 2 and 3 (generate_section_text), the
\* ends of the range, and one beyond either end
MdLevels == {0, 1, 2, 3, 6, 7}

InitHeaders ==
    /\ text = <<>>
    /\ hashseed = 0
    /\ parsed = NoCall
    /\ fmt = NoCall
    /\ topo = [t \in Tolerances |-> NoCall]
    /\ NoSecondCalls
    /\ UtilitiesIdle

AddMdPiece ==
    /\ adjusted = NoCall
    /\ Len(md) < MaxMdPieces
    /\ \E piece \in MdPieces : md' = Append(md, piece)
    /\ UNCHANGED <<text, hashseed, parsed, fmt, topo, reparsed, fmt2, topo2>>
    /\ UNCHANGED <<fenceVars, level, adjusted, gen>>

\* io.adjust_markdown_headers(md_text, level), an exception caught by the
\* caller
CallAdjust ==
    /\ adjusted = NoCall
    /\ \E lvl \in MdLevels :
          /\ level' = lvl
          /\ adjusted' = adjust_markdown_headers(TextOf(md), lvl)
    /\ UNCHANGED <<text, hashseed, parsed, fmt, topo, reparsed, fmt2, topo2>>
    /\ UNCHANGED <<fenceVars, md, gen>>

NextHeaders == AddMdPiece \/ CallAdjust

SpecHeaders == InitHeaders /\ [][NextHeaders]_vars

----------------------------------------------------------------------------
(* The caller of generate_section_text, and the language model answering   *)
(* each of its calls                                                       *)

\* The largest max_chats and max_gen_iterations the caller passes
MaxChats == 2

MaxGenIterations == 2

\* The instruction prompts and the descriptions the caller passes: without
\* and with Markdown headers, and an empty description
InstructionTexts == {<<"t">>, <<"#", " ", "t">>}

DescriptionTexts == {<<>>, <<"t">>, <<"#", " ", "t">>, <<"#", "#", " ", "t">>}

InitGen ==
    /\ text = <<>>
    /\ hashseed = 0
    /\ parsed = NoCall
    /\ fmt = NoCall
    /\ topo = [t \in Tolerances |-> NoCall]
    /\ NoSecondCalls
    /\ UtilitiesIdle

GenUnchanged ==
    /\ UNCHANGED <<text, hashseed, parsed, fmt, topo, reparsed, fmt2, topo2>>
    /\ UNCHANGED <<fenceVars, headerVars>>

\* generate_section_text(...), up to the loop of chats
GenCall ==
    /\ gen = NoCall
    /\ \E only_prompt \in BOOLEAN, verbose \in BOOLEAN,
          max_chats \in 0..MaxChats, max_gen_iterations \in 0..MaxGenIterations,
          instruction_prompt \in InstructionTexts, descr \in DescriptionTexts :
          gen' = generate_section_text_begin(
                    [only_prompt |-> only_prompt, verbose |-> verbose,
                     max_chats |-> max_chats,
                     max_gen_iterations |-> max_gen_iterations,
                     instruction_prompt |-> instruction_prompt,
                     text |-> descr])
    /\ GenUnchanged

\* for chat_idx in range(1, max_chats + 1): a new chat with a fresh input
StartChat ==
    /\ gen.status = "running" /\ gen.pc = "chat"
    /\ gen.chat_idx <= gen.max_chats
    /\ gen' = [gen EXCEPT !.pc = "attempt", !.attempt = 1,
                          !.input = FreshInput, !.chat_calls = 0]
    /\ GenUnchanged

\* One attempt: the call of the model, the cleaning, the two checks, and
\* either the return of a valid section or the feedback
Attempt ==
    /\ gen.status = "running" /\ gen.pc = "attempt"
    /\ gen.attempt <= gen.max_gen_iterations
    /\ \E k \in DOMAIN LLMOutputs : gen' = attempt_step(gen, attempt_checks(k))
    /\ GenUnchanged

\* The attempts of a chat are used up: chats.append(input), the next chat
EndChat ==
    /\ gen.status = "running" /\ gen.pc = "attempt"
    /\ gen.attempt > gen.max_gen_iterations
    /\ gen' = [gen EXCEPT !.pc = "chat", !.chat_idx = @ + 1,
                          !.chats = Append(@, gen.input)]
    /\ GenUnchanged

\* The chats are used up: return success, "", full_prompt, chats
ReturnFailure ==
    /\ gen.status = "running" /\ gen.pc = "chat"
    /\ gen.chat_idx > gen.max_chats
    /\ gen' = [gen EXCEPT !.status = "returned",
                          !.result = [success |-> gen.success,
                                      section_content |-> <<>>,
                                      chats |-> gen.chats]]
    /\ GenUnchanged

NextGen == GenCall \/ StartChat \/ Attempt \/ EndChat \/ ReturnFailure

SpecGen == InitGen /\ [][NextGen]_vars

\* The call runs on: the interpreter takes the next step of the function
\* whenever there is one (call_llm and the checks return)
SpecGenFair == InitGen /\ [][NextGen]_vars /\ WF_vars(NextGen)

----------------------------------------------------------------------------
(* What a text contains, read off the line grammar of the specification    *)

Tokens(raw) == split_comment(raw)

IsVertexLine(raw) == Len(Tokens(raw)) = 3 /\ isdigit(Tokens(raw)[1])

\* A line of two or more tokens that is not a vertex line
IsPolygonLine(raw) == Len(Tokens(raw)) >= 2 /\ ~IsVertexLine(raw)

ErrorsOf(r) == {r.errors[i] : i \in DOMAIN r.errors}

----------------------------------------------------------------------------
(* C4 *)

\* C4: parse and validate_format classify every line they both process into
\* the same category (blank, vertex, polygon, unrecognized), and that
\* category is the one given by the token count after truncation at the
\* first '#' and by whether the first token is all digits.
C4_SameDispatch ==
    (parsed # NoCall /\ fmt # NoCall) =>
        \A i \in DOMAIN parsed.kinds \cap DOMAIN fmt.kinds :
            /\ parsed.kinds[i] = fmt.kinds[i]
            /\ parsed.kinds[i] =
                 (IF Tokens(text[i]) = <<>> THEN "blank"
                  ELSE IF IsVertexLine(text[i]) THEN "vertex"
                  ELSE IF IsPolygonLine(text[i]) THEN "polygon"
                  ELSE "unrecognized")

\* Both functions were called on a text with a vertex line, a polygon line
\* whose name is all digits and a line made unrecognized by its comment.
C4_Witness ==
    /\ parsed # NoCall /\ fmt # NoCall
    /\ \E i, j, k \in DOMAIN parsed.kinds \cap DOMAIN fmt.kinds :
          /\ fmt.kinds[i] = "vertex"
          /\ fmt.kinds[j] = "polygon" /\ isdigit(text[j][1])
          /\ fmt.kinds[k] = "unrecognized" /\ Len(text[k]) = 3

----------------------------------------------------------------------------
(* C5 *)

\* A line parse cannot accept, by its four causes of failure
IsOffending(raw) ==
    LET parts == Tokens(raw)
    IN \/ IsVertexLine(raw) /\ (~float_ok(parts[2]) \/ ~float_ok(parts[3]))
       \/ IsPolygonLine(raw) /\ count_caret(parts[1]) > 1
       \/ IsPolygonLine(raw) /\ \E k \in 2..Len(parts) : ~int_ok(parts[k])
       \/ Len(parts) = 1

\* C5: every failure of parse names the 1-based number of the first
\* offending line.
C5_FailureNamesLine ==
    (parsed # NoCall /\ parsed.status = "raised") =>
        /\ parsed.exc.line \in DOMAIN text
        /\ IsOffending(text[parsed.exc.line])
        /\ \A j \in 1..(parsed.exc.line - 1) : ~IsOffending(text[j])

\* What does hold: the three failures parse_text raises itself name the line
\* parse stopped at; only the ValueError of int() and float() names none.
C5_OwnFailuresNameLine ==
    (parsed # NoCall /\ parsed.status = "raised") =>
        IF parsed.exc.what = "builtin" THEN parsed.exc.line = 0
        ELSE parsed.exc.line = Len(parsed.kinds)

----------------------------------------------------------------------------
(* C6 *)

\* The polygon lines of the specification: first token not purely numeric
IsSpecPolygonLine(raw) == Len(Tokens(raw)) >= 2 /\ ~isdigit(Tokens(raw)[1])

PolygonLineCount(txt) == Cardinality({i \in DOMAIN txt : IsPolygonLine(txt[i])})

VertexLineCount(txt) == Cardinality({i \in DOMAIN txt : IsVertexLine(txt[i])})

----------------------------------------------------------------------------
(* C7 *)

VertexLines(txt) == {i \in DOMAIN txt : IsVertexLine(txt[i])}

PolygonLines(txt) == {i \in DOMAIN txt : IsPolygonLine(txt[i])}

\* The vertex IDs a text declares and the ones its polygon lines reference
DeclaredIds(txt) ==
    {int_val(Tokens(txt[i])[1]) : i \in {j \in VertexLines(txt) : int_ok(Tokens(txt[j])[1])}}

ReferencedIds(txt) ==
    UNION {{int_val(Tokens(txt[i])[k]) :
                k \in {m \in 2..Len(Tokens(txt[i])) :
                          isdigit(Tokens(txt[i])[m]) /\ int_ok(Tokens(txt[i])[m])}} :
           i \in PolygonLines(txt)}

\* Vertex IDs declared by two vertex lines
DuplicateIds(txt) ==
    {v \in DeclaredIds(txt) :
        \E i, j \in VertexLines(txt) :
            /\ i < j
            /\ int_ok(Tokens(txt[i])[1]) /\ int_val(Tokens(txt[i])[1]) = v
            /\ int_ok(Tokens(txt[j])[1]) /\ int_val(Tokens(txt[j])[1]) = v}

\* Coordinate tokens that are no numerals
BadCoordinates(txt) ==
    UNION {{Tokens(txt[i])[k] : k \in {m \in {2, 3} : ~float_ok(Tokens(txt[i])[m])}} :
           i \in VertexLines(txt)}

\* Polygon names used by two polygon lines
DuplicateNames(txt) ==
    {Tokens(txt[i])[1] : i \in {j \in PolygonLines(txt) :
        \E k \in PolygonLines(txt) : k < j /\ Tokens(txt[k])[1] = Tokens(txt[j])[1]}}

MentionsId(r, v) == \E e \in ErrorsOf(r) : v \in Range(e.ids)

MentionsWord(r, w) == \E e \in ErrorsOf(r) : w \in Range(e.toks)

IsMalformed(txt) ==
    \/ DuplicateIds(txt) # {}
    \/ BadCoordinates(txt) # {}
    \/ DuplicateNames(txt) # {}
    \/ ReferencedIds(txt) \ DeclaredIds(txt) # {}
    \/ DeclaredIds(txt) \ ReferencedIds(txt) # {}

\* The errors of result r mention every offending identifier of the text
MentionsAllOffenders(r, txt) ==
    /\ \A v \in DuplicateIds(txt) : MentionsId(r, v)
    /\ \A w \in BadCoordinates(txt) : MentionsWord(r, w)
    /\ \A n \in DuplicateNames(txt) : MentionsWord(r, n)
    /\ \A v \in ReferencedIds(txt) \ DeclaredIds(txt) : MentionsId(r, v)
    /\ \A v \in DeclaredIds(txt) \ ReferencedIds(txt) : MentionsId(r, v)

\* C7: for every text with a duplicate vertex ID, a non-numeric coordinate,
\* a duplicate polygon name, a reference to an undeclared vertex ID or an
\* unused vertex, validate_format returns is_valid = false and an error
\* mentioning the offending identifier.
C7_MalformedIsReported ==
    (fmt # NoCall /\ IsMalformed(text)) =>
        /\ fmt.status = "returned"
        /\ ~fmt.is_valid
        /\ MentionsAllOffenders(fmt, text)

\* What does hold: the same, of every result validate_format returns.
C7_ReportedWhenReturned ==
    (fmt # NoCall /\ fmt.status = "returned" /\ IsMalformed(text)) =>
        /\ ~fmt.is_valid
        /\ MentionsAllOffenders(fmt, text)

----------------------------------------------------------------------------
(* C8 *)

\* The lines that break a per-line rule of the format
LineViolations(txt) ==
    {i \in DOMAIN txt :
        \/ Len(Tokens(txt[i])) = 1
        \/ IsVertexLine(txt[i]) /\
              (~float_ok(Tokens(txt[i])[2]) \/ ~float_ok(Tokens(txt[i])[3]))
        \/ IsPolygonLine(txt[i]) /\
              (\/ isdigit(Tokens(txt[i])[1])
               \/ \E k \in 2..Len(Tokens(txt[i])) : ~isdigit(Tokens(txt[i])[k]))}

\* Result r scanned every line, has an error naming each violating line and
\* has the errors of the end-of-text checks
ReportsEverything(r, txt) ==
    /\ Len(r.kinds) = Len(txt)
    /\ \A i \in LineViolations(txt) : \E e \in ErrorsOf(r) : e.line = i
    /\ VertexLines(txt) = {} => \E e \in ErrorsOf(r) : e.kind = "NoVertices"
    /\ PolygonLines(txt) = {} => \E e \in ErrorsOf(r) : e.kind = "NoPolygons"
    /\ \A v \in ReferencedIds(txt) \ DeclaredIds(txt) :
          \E e \in ErrorsOf(r) : e.kind = "UndefinedVertex" /\ e.ids = <<v>>
    /\ DeclaredIds(txt) \ ReferencedIds(txt) # {} =>
          \E e \in ErrorsOf(r) : e.kind = "NeverUsed"

\* C8: validate_format never raises and never stops at the first problem:
\* it scans every line and runs the end-of-text checks, so every violating
\* line gets its error in the one result.
C8_NeverRaisesReportsAll ==
    fmt # NoCall =>
        /\ fmt.status = "returned"
        /\ ReportsEverything(fmt, text)

\* What does hold: the same, of every result validate_format returns.
C8_ReportsAllWhenReturned ==
    (fmt # NoCall /\ fmt.status = "returned") => ReportsEverything(fmt, text)

----------------------------------------------------------------------------
(* What a cross-section contains, read off its text                        *)

Called(t) == topo[t] # NoCall

\* The integer IDs the vertex lines declare, and the coordinates of the
\* last vertex line declaring ID v
CoordOf(txt, v) ==
    LET last == CHOOSE i \in VertexLines(txt) :
                    /\ int_val(Tokens(txt[i])[1]) = v
                    /\ \A j \in VertexLines(txt) :
                          j > i => int_val(Tokens(txt[j])[1]) # v
    IN <<float_val(Tokens(txt[last])[2]), float_val(Tokens(txt[last])[3])>>

\* The first vertex line declaring ID v
FirstLineOf(txt, v) ==
    CHOOSE i \in VertexLines(txt) :
        /\ int_val(Tokens(txt[i])[1]) = v
        /\ \A j \in VertexLines(txt) : j < i => int_val(Tokens(txt[j])[1]) # v

\* parse accepts the text
Parses(txt) == \A i \in DOMAIN txt : ~IsOffending(txt[i]) /\
                  (IsVertexLine(txt[i]) => int_ok(Tokens(txt[i])[1]))

\* The integer IDs polygon line i lists
LineIds(txt, i) == [k \in 1..(Len(Tokens(txt[i])) - 1) |-> int_val(Tokens(txt[i])[k + 1])]

\* Every vertex ID a polygon line lists is declared
AllDeclared(txt) ==
    \A i \in PolygonLines(txt) : Range(LineIds(txt, i)) \subseteq DeclaredIds(txt)

LineCoords(txt, i) == [k \in DOMAIN LineIds(txt, i) |-> CoordOf(txt, LineIds(txt, i)[k])]

\* The polygon lines whose geometry cannot be built or is no simple ring
FailingPolygons(txt) ==
    {i \in PolygonLines(txt) :
        /\ Range(LineIds(txt, i)) \subseteq DeclaredIds(txt)
        /\ (polygon_raises(LineCoords(txt, i)) \/ ~is_valid(LineCoords(txt, i)))}

KindsOf(r) == [i \in DOMAIN r.errors |-> r.errors[i].kind]

----------------------------------------------------------------------------
(* C1 *)

\* C1: validate_topology never raises: every call returns a result.
C1_NeverRaises ==
    \A t \in Tolerances : Called(t) => topo[t].status = "returned"

----------------------------------------------------------------------------
(* C2 *)

BuildKinds == {"CouldNotBeCreated", "NotValidPolygon"}

ErrorsOfKind(r, K) == SelectSeq(r.errors, LAMBDA e : e.kind \in K)

\* The names of the failing polygon lines, in the order of the text
FailingNames(txt) ==
    LET lines == SelectSeq([i \in DOMAIN txt |-> i],
                           LAMBDA i : i \in FailingPolygons(txt))
    IN [k \in DOMAIN lines |-> Tokens(txt[lines[k]])[1]]

----------------------------------------------------------------------------
(* C3 *)

\* C3: for a document whose polygons all construct successfully, all the
\* checks are attempted, in their fixed order; a duplicate-coordinate error
\* does not keep the later checks from running.
C3_AllChecksAttempted ==
    \A t \in Tolerances :
        (Called(t) /\ Parses(text) /\ AllDeclared(text)
                   /\ PolygonLines(text) # {} /\ FailingPolygons(text) = {}) =>
            /\ topo[t].status = "returned"
            /\ topo[t].ran = AllChecks

\* What does hold: all the checks are attempted when, besides, no two
\* vertex IDs share their coordinates.
C3_AllChecksWithoutDuplicates ==
    \A t \in Tolerances :
        (Called(t) /\ Parses(text) /\ AllDeclared(text)
                   /\ PolygonLines(text) # {} /\ FailingPolygons(text) = {}
                   /\ \A v, w \in DeclaredIds(text) :
                         v # w => CoordOf(text, v) # CoordOf(text, w)) =>
            /\ topo[t].status = "returned"
            /\ topo[t].ran = AllChecks

----------------------------------------------------------------------------
(* C9 *)

\* The places of the 'share identical coordinates' errors naming v and w
SharedErrorsOn(r, v, w) ==
    {i \in DOMAIN r.errors :
        r.errors[i].kind = "SharedCoordinates" /\ Range(r.errors[i].ids) = {v, w}}

\* C9 as stated: a result has exactly one 'share identical coordinates'
\* error for every unordered pair of distinct vertex IDs with identical
\* coordinates.
C9_Original ==
    \A t \in Tolerances :
        (Called(t) /\ topo[t].status = "returned" /\ Parses(text)) =>
            \A v, w \in DeclaredIds(text) :
                (v # w /\ CoordOf(text, v) = CoordOf(text, w)) =>
                    Cardinality(SharedErrorsOn(topo[t], v, w)) = 1

\* The IDs declared before v that have the coordinates of v
EarlierAt(txt, v) ==
    {w \in DeclaredIds(txt) :
        /\ w # v
        /\ CoordOf(txt, w) = CoordOf(txt, v)
        /\ FirstLineOf(txt, w) < FirstLineOf(txt, v)}

\* C9 (amended): a result has exactly one 'share identical coordinates'
\* error for every vertex ID whose coordinates are those of an ID declared
\* earlier, naming the first ID declared at those coordinates and this ID,
\* and no other such error: k IDs on one point give k - 1 errors (one error
\* for k = 2).
C9_Amended ==
    \A t \in Tolerances :
        (Called(t) /\ topo[t].status = "returned" /\ Parses(text)) =>
            /\ \A v \in DeclaredIds(text) :
                  LET mine == {i \in DOMAIN topo[t].errors :
                                  /\ topo[t].errors[i].kind = "SharedCoordinates"
                                  /\ topo[t].errors[i].ids[2] = v}
                  IN IF EarlierAt(text, v) = {} THEN mine = {}
                     ELSE /\ Cardinality(mine) = 1
                          /\ \A i \in mine :
                                LET first == topo[t].errors[i].ids[1]
                                IN /\ first \in EarlierAt(text, v)
                                   /\ EarlierAt(text, first) = {}
            /\ Len(ErrorsOfKind(topo[t], {"SharedCoordinates"})) =
                  Cardinality(DeclaredIds(text))
                     - Cardinality({CoordOf(text, v) : v \in DeclaredIds(text)})

\* A result for three vertex IDs on one point: two errors, both naming the
\* first of the three.
C9_Witness ==
    \E t \in Tolerances :
        /\ Called(t) /\ topo[t].status = "returned" /\ Parses(text)
        /\ \E v \in DeclaredIds(text) : Cardinality(EarlierAt(text, v)) = 2
        /\ Len(ErrorsOfKind(topo[t], {"SharedCoordinates"})) = 2

----------------------------------------------------------------------------
(* C10 *)

\* The errors that compare an area with the tolerance
AreaKinds == {"Overlap", "Gap", "Leak", "NotPerfectRectangle"}

MaxTolerance == CHOOSE m \in Tolerances : \A t \in Tolerances : t <= m

\* C10: for the same text and tolerances t1 <= t2, the call at t2 raises
\* exactly if the call at t1 does, the errors at t2 are among the errors at
\* t1, so a result valid at t1 is valid at t2; and a document whose only
\* defects at some tolerance are overlap, gap or leak areas is valid at the
\* largest tolerance.
C10_ToleranceMonotone ==
    /\ \A t1, t2 \in Tolerances :
          (t1 <= t2 /\ Called(t1) /\ Called(t2)) =>
              /\ topo[t1].status = topo[t2].status
              /\ ErrorsOf(topo[t2]) \subseteq ErrorsOf(topo[t1])
              /\ topo[t1].is_valid => topo[t2].is_valid
    /\ \A t \in Tolerances :
          (/\ Called(t) /\ Called(MaxTolerance)
           /\ topo[t].status = "returned"
           /\ Range(KindsOf(topo[t])) \subseteq AreaKinds) =>
              topo[MaxTolerance].is_valid

\* A document with an overlap and nothing else wrong: invalid at the two
\* smaller tolerances, valid at the largest; and the errors shrink.
C10_Witness ==
    /\ \A t \in Tolerances : Called(t) /\ topo[t].status = "returned"
    /\ \E e \in ErrorsOf(topo[0]) : e.kind = "Overlap"
    /\ Range(KindsOf(topo[0])) \subseteq AreaKinds
    /\ ~topo[2].is_valid
    /\ topo[MaxTolerance].is_valid

----------------------------------------------------------------------------
(* C11 *)

----------------------------------------------------------------------------
(* C14 *)

\* The text is a document of the data model: numeric coordinates, every
\* vertex ID declared once, polygon names unique and not numeric, vertex IDs
\* all digits and declared, none listed twice by a polygon
IsDocument(txt) ==
    /\ \A i \in DOMAIN txt : IsVertexLine(txt[i]) \/ IsPolygonLine(txt[i])
    /\ LineViolations(txt) = {}
    /\ \A i \in VertexLines(txt) : int_ok(Tokens(txt[i])[1])
    /\ DuplicateIds(txt) = {} /\ DuplicateNames(txt) = {}
    /\ \A i \in PolygonLines(txt) :
          /\ \A k \in 2..Len(Tokens(txt[i])) : int_ok(Tokens(txt[i])[k])
          /\ Range(LineIds(txt, i)) \subseteq DeclaredIds(txt)
          /\ Cardinality(Range(LineIds(txt, i))) = Len(LineIds(txt, i))

\* The region every vertex of the document spans
BoundingRegion(txt) ==
    LET xs == {CoordOf(txt, v)[1] : v \in DeclaredIds(txt)}
        zs == {CoordOf(txt, v)[2] : v \in DeclaredIds(txt)}
    IN RectRegion(CHOOSE m \in xs : \A x \in xs : m <= x,
                  CHOOSE m \in xs : \A x \in xs : m >= x,
                  CHOOSE m \in zs : \A z \in zs : m <= z,
                  CHOOSE m \in zs : \A z \in zs : m >= z)

\* A document whose polygons are simple, have pairwise disjoint interiors,
\* have no foreign vertex inside or on their boundary and together tile the
\* bounding rectangle of all vertices, with every vertex declared before
\* the polygons and used by one of them
IsValidSection(txt) ==
    /\ IsDocument(txt)
    /\ VertexLines(txt) # {} /\ PolygonLines(txt) # {}
    /\ \A i \in VertexLines(txt) : \A j \in PolygonLines(txt) : i < j
    /\ DeclaredIds(txt) \subseteq ReferencedIds(txt)
    /\ FailingPolygons(txt) = {}
    /\ \A i, j \in PolygonLines(txt) :
          i # j => Region(LineCoords(txt, i)) \cap Region(LineCoords(txt, j)) = {}
    /\ \A i \in PolygonLines(txt) :
          \A v \in DeclaredIds(txt) \ Range(LineIds(txt, i)) :
              /\ ~contains(LineCoords(txt, i), CoordOf(txt, v))
              /\ ~touches(LineCoords(txt, i), CoordOf(txt, v))
    /\ UNION {Region(LineCoords(txt, i)) : i \in PolygonLines(txt)}
          = BoundingRegion(txt)

----------------------------------------------------------------------------
(* C12 *)

\* C12: validate_format is a pure function of its text: two calls on the
\* same text have the same outcome and return the same ordered list of
\* errors, the order of the polygon names inside the 'defined before all
\* vertices are defined' message included.
C12_SameErrorsTwice ==
    (fmt # NoCall /\ fmt2 # NoCall) =>
        /\ fmt2.status = fmt.status
        /\ fmt2.is_valid = fmt.is_valid
        /\ fmt2.errors = fmt.errors

\* What does hold: the two results differ at most in the order of the names
\* inside those messages.
C12_SameUpToNameOrder ==
    (fmt # NoCall /\ fmt2 # NoCall) =>
        /\ fmt2.status = fmt.status
        /\ fmt2.is_valid = fmt.is_valid
        /\ Len(fmt2.errors) = Len(fmt.errors)
        /\ \A i \in DOMAIN fmt.errors :
              IF fmt.errors[i].kind = "PolygonsBeforeVertices"
              THEN /\ fmt2.errors[i].kind = "PolygonsBeforeVertices"
                   /\ Range(fmt2.errors[i].toks) = Range(fmt.errors[i].toks)
              ELSE fmt2.errors[i] = fmt.errors[i]

----------------------------------------------------------------------------
(* C13 *)

\* C13: for every text parse accepts, writing the parsed vertices and
\* polygons as lines and parsing those again yields the identical vertex
\* list and polygon list: IDs, coordinates, names and the order of the IDs
\* inside each polygon, polygons with an all-digit name included.
C13_RoundTrip ==
    reparsed # NoCall =>
        /\ reparsed.status = "returned"
        /\ reparsed.vertices = parsed.vertices
        /\ reparsed.polygons = parsed.polygons

\* The round trip was made on a vertex whose ID and coordinates were not
\* written the way they are written back, and on a polygon with an
\* all-digit name that lists a vertex twice.
C13_Witness ==
    /\ reparsed # NoCall
    /\ \E i \in DOMAIN text :
          /\ IsVertexLine(text[i])
          /\ Tokens(text[i])[1] = "01" /\ Tokens(text[i])[2] = "2.0"
          /\ Tokens(text[i])[3] = "0"
    /\ \E k \in DOMAIN parsed.polygons :
          isdigit(parsed.polygons[k].name) /\ Len(parsed.polygons[k].ids) = 3

----------------------------------------------------------------------------
(* C19 *)

\* The vertex lines that come after a polygon line
LateVertexLines(txt) ==
    {i \in VertexLines(txt) : \E j \in PolygonLines(txt) : j < i}

\* C19: a result of validate_format has one 'defined before all vertices
\* are defined' error for every vertex line that comes after a polygon
\* line.
C19_ErrorAtEveryLateVertex ==
    (fmt # NoCall /\ fmt.status = "returned") =>
        Len(ErrorsOfKind(fmt, {"PolygonsBeforeVertices"}))
            = Cardinality(LateVertexLines(text))

\* What does hold: one such error for every vertex line that comes right
\* after a polygon line, blank and unrecognized lines between them aside.
C19_ErrorAtFirstLateVertex ==
    (fmt # NoCall /\ fmt.status = "returned") =>
        Len(ErrorsOfKind(fmt, {"PolygonsBeforeVertices"}))
            = Cardinality({i \in VertexLines(text) :
                  \E j \in PolygonLines(text) :
                      /\ j < i
                      /\ \A m \in (j + 1)..(i - 1) : m \notin VertexLines(text)})

----------------------------------------------------------------------------
(* C20 *)

\* The errors that name no line come last
PerLineErrorsFirst(r) ==
    \A i, j \in DOMAIN r.errors :
        (r.errors[i].kind \in {"NoVertices", "NoPolygons", "UndefinedVertex",
                               "NeverUsed"}
           /\ r.errors[j].kind \notin {"NoVertices", "NoPolygons",
                                       "UndefinedVertex", "NeverUsed"}) => j < i

\* The 'references undefined vertex ID' errors are one for every all-digit
\* ID referenced and nowhere declared, in ascending order, after the
\* per-line errors
UndefinedIdsReported(r, txt) ==
    LET undefined == ErrorsOfKind(r, {"UndefinedVertex"})
    IN /\ [k \in DOMAIN undefined |-> undefined[k].ids]
            = [k \in 1..Cardinality(ReferencedIds(txt) \ DeclaredIds(txt)) |->
                  <<SortedSeq(ReferencedIds(txt) \ DeclaredIds(txt))[k]>>]
       /\ PerLineErrorsFirst(r)

\* C20: validate_format reports exactly one 'references undefined vertex
\* ID' error for each distinct all-digit ID that a polygon line references
\* and no vertex line declares, in ascending order of ID and after all
\* per-line errors.
C20_OneErrorPerUndefinedId ==
    fmt # NoCall =>
        /\ fmt.status = "returned"
        /\ UndefinedIdsReported(fmt, text)

\* What does hold: the same, of every result validate_format returns.
C20_UndefinedIdsWhenReturned ==
    (fmt # NoCall /\ fmt.status = "returned") => UndefinedIdsReported(fmt, text)

----------------------------------------------------------------------------
(* C18 *)

\* No fence marker anywhere in t
NoFence(t) == \A i \in DOMAIN t : ~HasFenceAt(t, i)

\* No whitespace at either end of t
Trimmed(t) == t = <<>> \/ (~IsSpace(t[1]) /\ ~IsSpace(t[Len(t)]))

\* Where the opening marker of s starts, where its line ends and where the
\* marker that ends s (whitespace aside) starts
OpeningAt(s) == SpaceRunEnd(s, 1)

TagEnd(s) == LineEnd(s, OpeningAt(s) + 3)

ClosingAt(s) ==
    IF \E k \in DOMAIN s : ~IsSpace(s[k])
    THEN (CHOOSE k \in DOMAIN s :
              ~IsSpace(s[k]) /\ \A j \in (k + 1)..Len(s) : IsSpace(s[j])) - 2
    ELSE 0

\* The lines between the two markers (none: the empty text)
FencedContent(s) ==
    IF ClosingAt(s) > TagEnd(s) + 1
    THEN SubSeq(s, TagEnd(s) + 1, ClosingAt(s) - 2)
    ELSE <<>>

\* The whole of s is one fenced block: an opening marker with an optional
\* language tag on a line of its own, zero or more lines without a marker,
\* and a closing marker on a line of its own, with nothing but whitespace
\* around the block
IsFencedBlock(s) ==
    /\ HasFenceAt(s, OpeningAt(s))
    /\ TagEnd(s) <= Len(s)
    /\ \A k \in (OpeningAt(s) + 3)..(TagEnd(s) - 1) : s[k] # Backtick
    /\ ClosingAt(s) > TagEnd(s)
    /\ HasFenceAt(s, ClosingAt(s))
    /\ s[ClosingAt(s) - 1] = "\n"
    /\ NoFence(FencedContent(s))

\* The language tag of a fenced block
TagOf(s) == SubSeq(s, OpeningAt(s) + 3, TagEnd(s) - 1)

\* C18: strip_code_fences returns, for every input, a text with no fence
\* marker and no leading or trailing whitespace; when the whole input is one
\* fenced block with an optional language tag the result is the trimmed
\* inner content; applying it twice gives what applying it once gives.
C18_FencesStripped ==
    cleaned # NoCall =>
        /\ NoFence(cleaned.text)
        /\ Trimmed(cleaned.text)
        /\ IsFencedBlock(TextOf(out_content)) =>
              cleaned.text = strip(FencedContent(TextOf(out_content)))
        /\ recleaned # NoCall => recleaned.text = cleaned.text

\* What does hold: the same, but for the block with no line between its
\* markers, which is unwrapped only if its tag is alphanumeric.
C18_ButForEmptyTaggedBlock ==
    cleaned # NoCall =>
        /\ NoFence(cleaned.text)
        /\ Trimmed(cleaned.text)
        /\ (/\ IsFencedBlock(TextOf(out_content))
            /\ \/ ClosingAt(TextOf(out_content)) > TagEnd(TextOf(out_content)) + 1
               \/ \A k \in DOMAIN TagOf(TextOf(out_content)) :
                     IsAlnum(TagOf(TextOf(out_content))[k])) =>
              cleaned.text = strip(FencedContent(TextOf(out_content)))
        /\ recleaned # NoCall => recleaned.text = cleaned.text

----------------------------------------------------------------------------
(* C17: the header normalizer                                              *)

\* Where the blanks of a line, from place i on, stop
BlankRunEnd(s, i) ==
    IF \E k \in i..Len(s) : s[k] # " "
    THEN CHOOSE k \in i..Len(s) : s[k] # " " /\ \A j \in i..(k - 1) : s[j] = " "
    ELSE Len(s) + 1

\* The places where a line of the text starts
LineStartsOf(s) == {p \in 1..Len(s) : p = 1 \/ s[p - 1] = "\n"}

\* The readings of "heading line": 1 to 6 hashes at the start of a line,
\* after blanks, followed by a blank; by a blank or the end of the line; by
\* anything
Readings == {"blank", "blank or end of line", "anything"}

\* The depth of the heading on the line that starts at place p, under a
\* reading; 0 when the line is no heading
HeadingDepth(s, p, reading) ==
    LET h == BlankRunEnd(s, p)
        r == HashRunEnd(s, h)
        follows == IF r > Len(s) THEN "\n" ELSE s[r]
    IN IF /\ r - h >= 1 /\ r - h <= 6
          /\ \/ reading = "anything"
             \/ reading = "blank or end of line" /\ follows \in {" ", "\n"}
             \/ reading = "blank" /\ r <= Len(s) /\ follows = " "
       THEN r - h ELSE 0

HeadingsOf(s, reading) ==
    {p \in LineStartsOf(s) : HeadingDepth(s, p, reading) > 0}

MinDepth(s, reading) ==
    CHOOSE m \in {HeadingDepth(s, p, reading) : p \in HeadingsOf(s, reading)} :
        \A p \in HeadingsOf(s, reading) : m <= HeadingDepth(s, p, reading)

RECURSIVE Rewritten(_, _, _, _, _)
\* The text from place i on, each heading of depth d given
\* min(6, d + target - m) hashes and every other character kept
Rewritten(s, i, target, m, reading) ==
    IF i > Len(s) THEN <<>>
    ELSE IF i \in HeadingsOf(s, reading)
         THEN LET h == BlankRunEnd(s, i)
                  d == HeadingDepth(s, i, reading)
                  n == IF d + target - m > 6 THEN 6 ELSE d + target - m
              IN SubSeq(s, i, h - 1) \o [k \in 1..n |-> "#"]
                    \o Rewritten(s, h + d, target, m, reading)
         ELSE <<s[i]>> \o Rewritten(s, i + 1, target, m, reading)

\* What C17 asks of a call on text s, under a reading
NormalizedAsClaimed(s, reading) ==
    IF level \in 1..6 /\ HeadingsOf(s, reading) # {}
    THEN /\ adjusted.status = "returned"
         /\ adjusted.text = Rewritten(s, 1, level, MinDepth(s, reading), reading)
    ELSE adjusted.status = "raised"

\* C17: with a target depth in 1..6 and at least one heading in the text,
\* the header normalizer gives each heading of depth d the depth
\* min(6, d + target - m), m the least heading depth, and leaves every other
\* line as it is; with a target outside 1..6 or no heading it fails. A
\* call meets this when it does so under one of the readings of "heading".
C17_HeadersNormalized ==
    adjusted # NoCall
        => \E reading \in Readings : NormalizedAsClaimed(TextOf(md), reading)

\* Every run of 1 to 6 hashes at the start of a line has, after its blanks,
\* something other than a newline: a title, or the end of the text
HeadingsHaveTitles(s) ==
    \A p \in LineStartsOf(s) :
        LET h == BlankRunEnd(s, p)
            r == HashRunEnd(s, h)
            w == BlankRunEnd(s, r)
        IN (r - h >= 1 /\ r - h <= 6 /\ r <= Len(s) /\ s[r] \in {" ", "\n"})
            => (s[r] = " " /\ (SpaceRunEnd(s, r) > Len(s) \/ s[w] # "\n"))

\* C17, for the texts whose headings all have a title on their own line
C17_NormalizedWhenTitled ==
    (adjusted # NoCall /\ HeadingsHaveTitles(TextOf(md)))
        => NormalizedAsClaimed(TextOf(md), "blank")

\* A call that clamps: two headings, the deeper one already at depth 6
C17_Clamped ==
    /\ adjusted # NoCall /\ adjusted.status = "returned"
    /\ level = 6
    /\ HeadingsHaveTitles(TextOf(md))
    /\ Cardinality(HeadingsOf(TextOf(md), "blank")) = 2
    /\ MinDepth(TextOf(md), "blank") = 2

----------------------------------------------------------------------------
(* C15, C16: generate_section_text                                         *)

\* The call got past the checks of its arguments and built its prompt
PromptBuilt == gen # NoCall /\ gen.pc # "args"

\* The call is over
GenOver == gen # NoCall /\ gen.status \in {"returned", "raised"}

\* The call returned (True, "", full_prompt, []) and called no model
ReturnedPromptOnly ==
    /\ gen.status = "returned"
    /\ gen.result = [success |-> TRUE, section_content |-> <<>>, chats |-> <<>>]
    /\ gen.llm_calls = 0

\* C15: with only_prompt = True, generate_section_text makes no LLM call
\* and returns (True, "", full_prompt, []), whatever verbose is.
C15_OnlyPromptCallsNoModel ==
    (PromptBuilt /\ gen.only_prompt)
        => /\ gen.llm_calls = 0
           /\ GenOver => ReturnedPromptOnly

\* C15, for verbose = True
C15_OnlyPromptWhenVerbose ==
    (PromptBuilt /\ gen.only_prompt /\ gen.verbose) => ReturnedPromptOnly

\* With only_prompt = True and verbose = False the loop runs to a success
C15_SilentOnlyPromptGenerates ==
    /\ PromptBuilt /\ gen.only_prompt /\ ~gen.verbose
    /\ gen.status = "returned" /\ gen.result.success
    /\ gen.llm_calls = 2

\* The last attempt passed both checks
LastAttemptValid ==
    /\ gen.last # NoAttempt
    /\ ~gen.last.format_raised
    /\ gen.last.is_valid_format /\ gen.last.is_valid_topology

\* success = True comes only with the section_content of an attempt that
\* passed both checks
SuccessOnlyWhenValid ==
    (gen.status = "returned" /\ gen.result.success)
        => /\ LastAttemptValid
           /\ gen.result.section_content = gen.last.section_content

\* An exception of the topology check leaves the attempt invalid and the
\* loop running
TopologyExceptionIsInvalid ==
    (gen.last.topology_raised /\ ~gen.last.format_raised)
        => /\ gen.status # "raised"
           /\ ~gen.success

\* A call that ends with no valid attempt returns success = False and an
\* empty section_content
FailureWhenNoneValid ==
    (GenOver /\ ~LastAttemptValid)
        => /\ gen.status = "returned"
           /\ ~gen.result.success
           /\ gen.result.section_content = <<>>

\* C16: generate_section_text (asked to generate: only_prompt = False)
\* returns success = True only with a section_content that passed both
\* checks in that attempt; an exception of the topology check counts as
\* invalid topology and does not end the loop; when no attempt is valid it
\* returns success = False with an empty section_content.
C16_SuccessIffValidAttempt ==
    (PromptBuilt /\ ~gen.only_prompt)
        => /\ SuccessOnlyWhenValid
           /\ TopologyExceptionIsInvalid
           /\ FailureWhenNoneValid

\* C16, for the calls in which no format check raised
C16_WhenFormatCheckReturns ==
    (PromptBuilt /\ ~gen.only_prompt /\ ~gen.last.format_raised)
        => /\ SuccessOnlyWhenValid
           /\ TopologyExceptionIsInvalid
           /\ FailureWhenNoneValid

\* A call that went on after an exception of the topology check and
\* returned a failure
C16_FailureAfterTopologyException ==
    /\ PromptBuilt /\ ~gen.only_prompt
    /\ gen.status = "returned" /\ ~gen.result.success
    /\ gen.last.topology_raised
    /\ gen.llm_calls = 4

----------------------------------------------------------------------------
(* C21 *)

\* parse accepts the text, the text declares a vertex and every vertex its
\* polygon lines list, and the geometry of every polygon constructs
Constructs(txt) ==
    /\ Parses(txt) /\ AllDeclared(txt)
    /\ DeclaredIds(txt) # {}
    /\ FailingPolygons(txt) = {}

\* No two vertex IDs of the text share their coordinates
NoSharedCoordinates(txt) ==
    \A v, w \in DeclaredIds(txt) : v # w => CoordOf(txt, v) # CoordOf(txt, w)

\* The places of the errors of a kind about vertex v and the polygon named
\* name
VertexErrorsOn(r, kind, v, name) ==
    {k \in DOMAIN r.errors :
        /\ r.errors[k].kind = kind
        /\ r.errors[k].ids = <<v>>
        /\ r.errors[k].toks = <<name>>}

\* How many 'lies strictly inside' and 'lies on an edge' errors the pair of
\* vertex v and polygon line i is due
InsideDue(txt, v, i) ==
    IF v \notin Range(LineIds(txt, i)) /\ contains(LineCoords(txt, i), CoordOf(txt, v))
    THEN 1 ELSE 0

OnEdgeDue(txt, v, i) ==
    IF /\ v \notin Range(LineIds(txt, i))
       /\ ~contains(LineCoords(txt, i), CoordOf(txt, v))
       /\ touches(LineCoords(txt, i), CoordOf(txt, v))
    THEN 1 ELSE 0

ContainmentAsClaimed(r, txt) ==
    \A v \in DeclaredIds(txt) : \A i \in PolygonLines(txt) :
        /\ Cardinality(VertexErrorsOn(r, "StrictlyInside", v, Tokens(txt[i])[1]))
              = InsideDue(txt, v, i)
        /\ Cardinality(VertexErrorsOn(r, "OnEdge", v, Tokens(txt[i])[1]))
              = OnEdgeDue(txt, v, i)

\* C21: for every vertex v and polygon P of a document whose polygons
\* construct, the result has exactly one 'lies strictly inside' error if v
\* is not listed by P and is in P's interior, exactly one 'lies on an edge'
\* error if v is not listed by P and is on P's boundary, and no such error
\* otherwise.
C21_ContainmentReported ==
    \A t \in Tolerances :
        (Called(t) /\ Constructs(text)) =>
            /\ topo[t].status = "returned"
            /\ ContainmentAsClaimed(topo[t], text)

\* C21, for the documents in which no two vertex IDs share coordinates
C21_ReportedWithoutDuplicates ==
    \A t \in Tolerances :
        (Called(t) /\ Constructs(text) /\ NoSharedCoordinates(text)) =>
            /\ topo[t].status = "returned"
            /\ ContainmentAsClaimed(topo[t], text)

\* A result with a 'lies strictly inside' error
C21_InsideReported ==
    \E t \in Tolerances :
        /\ Called(t) /\ Constructs(text) /\ topo[t].status = "returned"
        /\ "StrictlyInside" \in Range(KindsOf(topo[t]))

\* A result with a 'lies on an edge' error
C21_OnEdgeReported ==
    \E t \in Tolerances :
        /\ Called(t) /\ Constructs(text) /\ topo[t].status = "returned"
        /\ "OnEdge" \in Range(KindsOf(topo[t]))

----------------------------------------------------------------------------
(* C22 *)

\* The places of the overlap errors naming first, then second
OverlapErrorsOn(r, first, second) ==
    {k \in DOMAIN r.errors :
        r.errors[k].kind = "Overlap" /\ r.errors[k].toks = <<first, second>>}

\* The area polygon lines i and j have in common
CommonArea(txt, i, j) ==
    Area(Region(LineCoords(txt, i)) \cap Region(LineCoords(txt, j)))

\* The pairs of polygon lines, the earlier line first, whose common area
\* is above the tolerance
OverlappingPairs(txt, tol) ==
    {p \in PolygonLines(txt) \X PolygonLines(txt) :
        p[1] < p[2] /\ CommonArea(txt, p[1], p[2]) > tol}

OverlapsAsClaimed(r, txt, tol) ==
    /\ \A i, j \in PolygonLines(txt) :
          Cardinality(OverlapErrorsOn(r, Tokens(txt[i])[1], Tokens(txt[j])[1])) =
              IF <<i, j>> \in OverlappingPairs(txt, tol) THEN 1 ELSE 0
    /\ Len(ErrorsOfKind(r, {"Overlap"})) = Cardinality(OverlappingPairs(txt, tol))

\* C22: the result has exactly one overlap error, naming the polygon
\* declared earlier first, for every pair of distinct polygons whose common
\* area is above the tolerance, and no other overlap error: none for a pair
\* that only touches, none naming a pair twice or the other way round.
C22_OverlapsReported ==
    \A t \in Tolerances :
        (Called(t) /\ Constructs(text)) =>
            /\ topo[t].status = "returned"
            /\ OverlapsAsClaimed(topo[t], text, t)

\* C22, for the documents in which no two vertex IDs share coordinates
C22_ReportedWithoutDuplicates ==
    \A t \in Tolerances :
        (Called(t) /\ Constructs(text) /\ NoSharedCoordinates(text)) =>
            /\ topo[t].status = "returned"
            /\ OverlapsAsClaimed(topo[t], text, t)

\* A result with one overlap error, for two polygons
C22_OverlapReported ==
    /\ Called(0) /\ Constructs(text) /\ topo[0].status = "returned"
    /\ Cardinality(PolygonLines(text)) = 2
    /\ Len(ErrorsOfKind(topo[0], {"Overlap"})) = 1

----------------------------------------------------------------------------
(* C23 *)

\* The x and the z every vertex line of the text declares
DeclaredXs(txt) == {float_val(Tokens(txt[i])[2]) : i \in VertexLines(txt)}

DeclaredZs(txt) == {float_val(Tokens(txt[i])[3]) : i \in VertexLines(txt)}

\* The rectangle spanned by the least and the greatest x and z of all the
\* vertex lines, used by a polygon or not
RectangleOfAll(txt) ==
    RectRegion(CHOOSE m \in DeclaredXs(txt) : \A x \in DeclaredXs(txt) : m <= x,
               CHOOSE m \in DeclaredXs(txt) : \A x \in DeclaredXs(txt) : m >= x,
               CHOOSE m \in DeclaredZs(txt) : \A z \in DeclaredZs(txt) : m <= z,
               CHOOSE m \in DeclaredZs(txt) : \A z \in DeclaredZs(txt) : m >= z)

\* The union of the polygons of the text
UnionOfAll(txt) == UNION {Region(LineCoords(txt, i)) : i \in PolygonLines(txt)}

\* The area of the rectangle the polygons leave uncovered
UncoveredArea(txt) == Area(RectangleOfAll(txt) \ UnionOfAll(txt))

GapAsClaimed(r, txt, tol) ==
    Len(ErrorsOfKind(r, {"Gap"})) = IF UncoveredArea(txt) > tol THEN 1 ELSE 0

\* C23: the result has exactly one gap error if the area of the rectangle
\* spanned by all declared vertices that the union of the polygons leaves
\* uncovered is above the tolerance, and no gap error otherwise.
C23_GapReported ==
    \A t \in Tolerances :
        (Called(t) /\ Constructs(text)) =>
            /\ topo[t].status = "returned"
            /\ GapAsClaimed(topo[t], text, t)

\* C23, for the documents in which no two vertex IDs share coordinates; the
\* error carries the uncovered area
C23_ReportedWithoutDuplicates ==
    \A t \in Tolerances :
        (Called(t) /\ Constructs(text) /\ NoSharedCoordinates(text)) =>
            /\ topo[t].status = "returned"
            /\ GapAsClaimed(topo[t], text, t)
            /\ \A e \in ErrorsOf(topo[t]) :
                  e.kind = "Gap" => e.area = UncoveredArea(text)

\* A gap error for a rectangle that a vertex no polygon uses helps to span
C23_GapBesideUnusedVertex ==
    /\ Called(0) /\ Constructs(text) /\ topo[0].status = "returned"
    /\ NoSharedCoordinates(text)
    /\ DeclaredIds(text) \ ReferencedIds(text) # {}
    /\ Cardinality(RectangleOfAll(text)) = 8
    /\ Cardinality(UnionOfAll(text)) = 2
    /\ "Gap" \in Range(KindsOf(topo[0]))

----------------------------------------------------------------------------
(* C24 *)

\* The number of parts of a region: of the arcs its cells form on the ring
\* of cells (one part when it is the whole square, none when it is empty)
Parts(region) ==
    IF region = Cells THEN 1
    ELSE Cardinality({k \in region : NextCell(k) \notin region})

\* The area of the symmetric difference of the union of the polygons and
\* the bounding rectangle
DifferenceArea(txt) ==
    Area((UnionOfAll(txt) \ RectangleOfAll(txt))
            \cup (RectangleOfAll(txt) \ UnionOfAll(txt)))

\* The exact-tiling check of the call ran
TilingRan(t) ==
    Called(t) /\ topo[t].status = "returned" /\ topo[t].ran = AllChecks

TilingKinds == {"NotContiguous", "NotPerfectRectangle"}

\* C24 as stated: in the exact-tiling check a union of more than one part
\* gets a 'do not form a single contiguous shape' error and a union whose
\* symmetric difference with the bounding rectangle is above the tolerance
\* gets a 'not a perfect rectangle' error, each whenever its condition
\* holds, also when both hold.
C24_Original ==
    \A t \in Tolerances :
        (TilingRan(t) /\ Constructs(text)) =>
            /\ Parts(UnionOfAll(text)) > 1
                  => "NotContiguous" \in Range(KindsOf(topo[t]))
            /\ DifferenceArea(text) > t
                  => "NotPerfectRectangle" \in Range(KindsOf(topo[t]))

\* C24 (amended): in the exact-tiling check a union that is not one single
\* part (several parts, or none when the document has no polygon) gets a
\* 'do not form a single contiguous shape' error and no 'not a perfect
\* rectangle' error; a union of one part gets a 'not a perfect rectangle'
\* error exactly if its symmetric difference with the bounding rectangle is
\* above the tolerance; the check emits no other error.
C24_Amended ==
    \A t \in Tolerances :
        (TilingRan(t) /\ Constructs(text)) =>
            KindsOf([errors |-> ErrorsOfKind(topo[t], TilingKinds)]) =
                IF Parts(UnionOfAll(text)) # 1
                THEN <<"NotContiguous">>
                ELSE IF DifferenceArea(text) > t
                THEN <<"NotPerfectRectangle">>
                ELSE <<>>

\* The check ran at tolerance 0 on two triangles that meet at the centre
\* only: a union of two parts that differs from the rectangle by half of it
C24_Witness ==
    /\ TilingRan(0) /\ Constructs(text)
    /\ Parts(UnionOfAll(text)) = 2
    /\ DifferenceArea(text) = 4
    /\ ErrorsOfKind(topo[0], TilingKinds) # <<>>

----------------------------------------------------------------------------
(* C25 *)

\* No more LLM calls than max_chats x max_gen_iterations, no more than
\* max_gen_iterations of them in the chat at hand
CallsBounded ==
    PromptBuilt
        => /\ gen.llm_calls <= gen.max_chats * gen.max_gen_iterations
           /\ gen.chat_calls <= gen.max_gen_iterations

\* The call is over once an attempt passed both checks, so that no step of
\* it (an LLM call least of all) follows
StopsAtFirstValid ==
    (PromptBuilt /\ LastAttemptValid)
        => /\ gen.status = "returned"
           /\ ~ENABLED NextGen

\* C25: generate_section_text always terminates (it returns or raises),
\* makes at most max_chats x max_gen_iterations LLM calls, at most
\* max_gen_iterations of them in any one chat, and makes no LLM call after
\* the first attempt whose output passes both the format and the topology
\* validation.
C25_TerminatesWithinBudget ==
    /\ <>GenOver
    /\ [](CallsBounded /\ StopsAtFirstValid)

\* A call that used up its budget: max_chats = 2 chats of
\* max_gen_iterations = 2 attempts each, none valid, and returned a failure
C25_BudgetUsedUp ==
    /\ GenOver /\ gen.status = "returned" /\ ~gen.result.success
    /\ gen.max_chats = MaxChats /\ gen.max_gen_iterations = MaxGenIterations
    /\ gen.llm_calls = gen.max_chats * gen.max_gen_iterations
    /\ gen.chat_calls = gen.max_gen_iterations

----------------------------------------------------------------------------
(* C26 *)

\* validate_format returned is_valid = True for the text
FormatValid == fmt # NoCall /\ fmt.status = "returned" /\ fmt.is_valid

\* The call of validate_topology at tolerance t returned an 'Unexpected
\* parse failure' error
ParseFailureReported(t) ==
    /\ Called(t) /\ topo[t].status = "returned"
    /\ "UnexpectedParseFailure" \in Range(KindsOf(topo[t]))

\* C26: every text for which validate_format returns is_valid = True is
\* parsed by parse without error, so validate_topology never returns an
\* 'Unexpected parse failure' error for a format-valid text (a polygon name
\* with more than one '^' included).
C26_FormatValidParses ==
    FormatValid =>
        /\ parsed # NoCall => parsed.status = "returned"
        /\ \A t \in Tolerances : ~ParseFailureReported(t)

\* C26, for the texts no polygon name of which has more than one '^'
C26_ParsesWithoutCarets ==
    (FormatValid /\ \A i \in DOMAIN text : text[i] # <<>> => count_caret(text[i][1]) <= 1) =>
        /\ parsed # NoCall => parsed.status = "returned"
        /\ \A t \in Tolerances : ~ParseFailureReported(t)

\* A format-valid text was parsed and handed to validate_topology
C26_ValidTextParsed ==
    /\ FormatValid
    /\ parsed # NoCall /\ parsed.status = "returned"
    /\ \E t \in Tolerances : Called(t)

----------------------------------------------------------------------------
(* C27 *)

\* The vertex lines with a polygon line between the vertex line before them
\* (or the start of the text) and themselves
BlockEndLines(txt) ==
    {i \in VertexLines(txt) :
        \E j \in PolygonLines(txt) :
            /\ j < i
            /\ \A m \in (j + 1)..(i - 1) : m \notin VertexLines(txt)}

\* The k-th of a set of lines
NthLine(lines, k) ==
    CHOOSE i \in lines : Cardinality({j \in lines : j < i}) = k - 1

\* The names of the polygon lines above line i
NamesAbove(txt, i) ==
    {Tokens(txt[j])[1] : j \in {m \in PolygonLines(txt) : m < i}}

\* The ordering errors of result r are one for every such vertex line, in
\* the order of the lines, each listing the polygons above its line
OncePerBlock(r, txt) ==
    LET fired == ErrorsOfKind(r, {"PolygonsBeforeVertices"})
    IN /\ Len(fired) = Cardinality(BlockEndLines(txt))
       /\ \A k \in DOMAIN fired :
             Range(fired[k].toks) = NamesAbove(txt, NthLine(BlockEndLines(txt), k))

\* C27: the ordering error of validate_format fires at a vertex line
\* exactly when a polygon line occurred between the previous vertex line
\* (or the start of the text) and this vertex line: one error for every
\* maximal block of polygon lines that a vertex line follows, never two for
\* one block, none at a vertex line that directly follows a vertex line.
C27_FiresOncePerBlock ==
    fmt # NoCall =>
        IF fmt.status = "returned"
        THEN OncePerBlock(fmt, text)
        ELSE BlockEndLines(text) = {}

\* What does hold: the same, of every result validate_format returns.
C27_OncePerBlockWhenReturned ==
    (fmt # NoCall /\ fmt.status = "returned") => OncePerBlock(fmt, text)

\* A result for a polygon line followed by two vertex lines: one error
C27_OneErrorForTwoLateVertices ==
    /\ fmt # NoCall /\ fmt.status = "returned"
    /\ Len(text) = 3
    /\ IsPolygonLine(text[1]) /\ IsVertexLine(text[2]) /\ IsVertexLine(text[3])
    /\ Len(ErrorsOfKind(fmt, {"PolygonsBeforeVertices"})) = 1

----------------------------------------------------------------------------
(* C28 *)

\* The 'lies on an edge' errors of result r
OnEdgeErrors(r) == ErrorsOfKind(r, {"OnEdge"})

\* The coordinates of the corners of the polygons of the text named name
CornersOf(txt, name) ==
    UNION {Range(LineCoords(txt, i)) :
              i \in {j \in PolygonLines(txt) : Tokens(txt[j])[1] = name}}

\* C28: whenever validate_topology emits a 'lies on an edge (but is not an
\* endpoint)' error for vertex v and polygon P, the coordinates of v differ
\* from those of every corner of P: the result has no error about shared
\* coordinates, as any such error makes the function return before the
\* containment check.
C28_OnEdgeIsNoCorner ==
    \A t \in Tolerances :
        (Called(t) /\ topo[t].status = "returned") =>
            /\ \A k \in DOMAIN OnEdgeErrors(topo[t]) :
                  CoordOf(text, OnEdgeErrors(topo[t])[k].ids[1])
                      \notin CornersOf(text, OnEdgeErrors(topo[t])[k].toks[1])
            /\ OnEdgeErrors(topo[t]) # <<>>
                  => "SharedCoordinates" \notin Range(KindsOf(topo[t]))

\* A result with a 'lies on an edge' error for the vertex at the centre of
\* the square and a polygon whose edge runs through the centre
C28_CentreOnDiagonal ==
    \E t \in Tolerances :
        /\ Called(t) /\ topo[t].status = "returned"
        /\ \E k \in DOMAIN OnEdgeErrors(topo[t]) :
              /\ OnEdgeErrors(topo[t])[k].ids = <<5>>
              /\ CoordOf(text, 5) = <<2, 2>>

----------------------------------------------------------------------------
(* C29 *)

\* C29: validate_topology never emits the 'extend outside the bounding
\* rectangle' error: every polygon corner is a declared vertex and the
\* rectangle spans all declared vertices, so the union of the polygons lies
\* in the rectangle.
C29_NeverLeaks ==
    \A t \in Tolerances :
        Called(t) =>
            /\ "Leak" \notin Range(KindsOf(topo[t]))
            /\ (topo[t].status = "returned" /\ topo[t].ran = AllChecks)
                  => UnionOfAll(text) \subseteq RectangleOfAll(text)

\* The coverage check ran on a document whose polygons cover a part of the
\* rectangle that a vertex no polygon lists helps to span
C29_UnionWithinWiderRectangle ==
    \E t \in Tolerances :
        /\ Called(t) /\ topo[t].status = "returned" /\ topo[t].ran = AllChecks
        /\ UnionOfAll(text) # {}
        /\ UnionOfAll(text) # RectangleOfAll(text)
        /\ DeclaredIds(text) \ ReferencedIds(text) # {}
        /\ "Gap" \in Range(KindsOf(topo[t]))

----------------------------------------------------------------------------
(* C30 *)

\* The history h is the system role and the user prompt, then k times an
\* assistant output and the user feedback on it: 2 + 2k messages
IsHistoryOf(h, k) ==
    /\ Len(h) = 2 + 2 * k
    /\ h[1] = [role |-> "system", content |-> "llm_role"]
    /\ h[2] = [role |-> "user", content |-> "user_prompt"]
    /\ \A j \in 1..k :
          /\ h[2 * j + 1] = [role |-> "assistant", content |-> "section_content"]
          /\ h[2 * j + 2] = [role |-> "user", content |-> "feedback_message"]

\* The history h is that of a chat that ended with an accepted output after
\* k failed attempts
IsAcceptedHistory(h, k) ==
    /\ Len(h) = 2 + 2 * k + 1
    /\ IsHistoryOf(SubSeq(h, 1, 2 + 2 * k), k)
    /\ h[Len(h)].role = "assistant"

\* The loop of chats of the call was entered (the call neither raised on
\* its arguments nor returned the prompt only)
InLoop == PromptBuilt /\ gen.pc \in {"chat", "attempt"}

\* A chat in progress has the history of its failed attempts, and every
\* chat before it left the history of max_gen_iterations failed attempts
ChatsWhileRunning ==
    (InLoop /\ gen.status = "running") =>
        /\ gen.pc = "attempt" => IsHistoryOf(gen.input, gen.attempt - 1)
        /\ Len(gen.chats) = gen.chat_idx - 1
        /\ \A c \in DOMAIN gen.chats :
              IsHistoryOf(gen.chats[c], gen.max_gen_iterations)

\* On overall failure the returned list has max_chats histories
ChatsOnFailure ==
    (InLoop /\ gen.status = "returned" /\ ~gen.result.success) =>
        /\ Len(gen.result.chats) = gen.max_chats
        /\ \A c \in DOMAIN gen.result.chats :
              IsHistoryOf(gen.result.chats[c], gen.max_gen_iterations)

\* On success in chat c the returned list has c histories, the last one
\* ending with the accepted assistant message
ChatsOnSuccess ==
    (InLoop /\ gen.status = "returned" /\ gen.result.success) =>
        /\ Len(gen.result.chats) = gen.chat_idx
        /\ \A c \in 1..(gen.chat_idx - 1) :
              IsHistoryOf(gen.result.chats[c], gen.max_gen_iterations)
        /\ IsAcceptedHistory(gen.result.chats[gen.chat_idx], gen.attempt - 1)

\* C30: every chat starts from a fresh history of two messages (system
\* role, user prompt) that carries nothing over from earlier chats; every
\* failed attempt appends two messages (assistant output, user feedback),
\* so a chat's history has 2 + 2k messages after k failed attempts; on
\* overall failure the returned chats list has max_chats histories, and on
\* success in chat c it has c histories, the last one ending with the
\* accepted assistant message.
C30_ChatHistories ==
    ChatsWhileRunning /\ ChatsOnFailure /\ ChatsOnSuccess

\* A success in the second chat, after one failed attempt in it: two
\* histories, of 6 and of 5 messages
C30_SuccessInSecondChat ==
    /\ InLoop /\ gen.status = "returned" /\ gen.result.success
    /\ gen.chat_idx = 2 /\ gen.attempt = 2
    /\ Len(gen.result.chats) = 2
    /\ Len(gen.result.chats[1]) = 6 /\ Len(gen.result.chats[2]) = 5

============================================================================
